---------------------------- MODULE Spec2Model ----------------------------
(***************************************************************************)
(* Osprey: rule engine, typology engine, decision processor (TADP) and the *)
(* HTTP handlers that drive them.                                          *)
(*                                                                         *)
(* float64 values are modelled as exact rationals <<n, d>> with d > 0 in   *)
(* lowest terms, so that equality of two values is equality of the pairs.  *)
(***************************************************************************)
EXTENDS Integers, Sequences, FiniteSets, TLC

VARIABLES
    processor,      \* tadp.Processor: AlertThreshold, UseWeightedScoring, Mode
    decisionInput,  \* tadp.DecisionInput handed to Process
    evaluation,     \* the *domain.Evaluation Process returned, or NoEvaluation
    compiledRules,  \* Engine.compiledRules: rule id -> CompiledRule
    loadPc,         \* position of the LoadRules call: "idle" or "loop"
    loading,        \* the configs LoadRules has still to visit
    maxWorkers,     \* Engine.maxWorkers
    engineRet,      \* what the last LoadRule/LoadRules/ReloadRules call returned
    eaPc,           \* position of the EvaluateAll call
    eaInput,        \* its EvaluationInput
    eaRules,        \* its local slice of compiled rules
    eaResults,      \* its results slice: NoResult where nothing is written yet
    eaVelocity,     \* what its velocityGetter call returned, NoVelocity before
    eaWorkers,      \* its goroutines, by slot: "spawned", "running" or "done"
    eaCancelled,    \* whether its ctx is cancelled
    eaPre,          \* history: the live configs when the call was made
    eaPost,         \* history: the live configs after the first change since
    eaMut,          \* history: the changes of the live set since the call
    repoRules,      \* the repository's rule_configs rows, by rule id
    typologies,     \* TypologyEngine.typologies: typology id -> Typology
    hPc,            \* position of the Evaluate handler
    hTypologyResults, \* its typologyResults
    hSaved,         \* the rows it has written to the repository
    response,       \* the last HTTP response a handler wrote
    matchInput,     \* the scores and the bands handed to matchBand
    matchResult,    \* what matchBand returned for each score
    repoTypologies, \* the repository's typologies rows, by typology id
    tyEval,         \* TypologyEngine.mu and one EvaluateTypologies call
    worker,         \* the worker's processTransaction call
    bus,            \* the ChannelBus and one Publish call
    cache           \* the TwoPhaseCache and the clock

procVars == <<processor, decisionInput, evaluation>>

engineVars == <<compiledRules, loadPc, loading, maxWorkers, engineRet>>

eaVars == <<eaPc, eaInput, eaRules, eaResults, eaVelocity, eaWorkers, eaCancelled>>

eaHist == <<eaPre, eaPost, eaMut>>

apiVars == <<repoRules, typologies, hPc, hTypologyResults, hSaved, response>>

bandVars == <<matchInput, matchResult>>

mgmtVars == <<repoTypologies>>

lockVars == <<tyEval>>

workerVars == <<worker>>

busVars == <<bus>>

cacheVars == <<cache>>

\* TypologyEngine.mu: the number of read locks held.
tyReaders == tyEval.readers
\* Position of the EvaluateTypologies call.
tyPc == tyEval.pc
\* The typology ids its range loop has still to visit.
tyIter == tyEval.iter
\* Its results slice.
tyResults == tyEval.results

\* Position of the worker's processTransaction.
wPc == worker.pc
\* The message it was handed, NoMessage before.
wMsg == worker.msg
\* Its typologyResults.
wTypologyResults == worker.typologyResults
\* The evaluation it published, NoEvaluation before.
wEvaluation == worker.evaluation
\* The tenant of the subscription the message came in on.
wSubscription == worker.subscription
\* Its tenantID.
wTenantID == worker.tenantID
\* History: the tenants of its SaveEvaluation calls and whether they succeeded.
wSaved == worker.saved

\* ChannelBus.bufferSize
bufferSize == bus.bufferSize
\* Every channelSubscription Subscribe has built, in the order of the calls;
\* inMap tells those ChannelBus.subscriptions holds.
subscriptions == bus.subscriptions
\* ChannelBus.closed
closed == bus.closed
\* History: tenant and topic of the messages Publish created, by their ID.
messages == bus.messages
\* Position of the Request call.
reqPc == bus.reqPc
\* The number of Request calls so far: it stands for the uuid of the reply
\* topic.
reqCount == bus.reqCount
\* The tenant and topic of the Request call.
reqArgs == bus.reqArgs
\* Its reply subscription.
reqSub == bus.reqSub
\* Position of the Publish call.
pubPc == bus.pubPc
\* The message it created.
pubMsg == bus.pubMsg
\* Its subs: the subscriptions it has still to send to.
pubSubs == bus.pubSubs
\* What the last Publish returned.
pubRet == bus.pubRet
\* History: what the call did for each subscription.
pubLog == bus.pubLog

\* TwoPhaseCache.l1TTL
l1TTL == cache.l1TTL
\* The L1 LRUCache: its entries, most recently used first.
local == cache.local
\* The L2 Redis keys: key -> value and expiry.
remote == cache.remote
\* time.Now()
clock == cache.clock
\* History: per key, the TTL last asked for and the TTL its L1 entry was
\* last written with.
cacheHist == cache.hist
\* History: the number of uses of the LRU cache so far, a use being a Set
\* or a Get that returned a value, and per key the number of its last use.
uses == cache.uses
lastUse == cache.lastUse
\* Position of a TwoPhaseCache.Get call followed step by step, its key and
\* its val.
getPc == cache.getPc
getKey == cache.getKey
getVal == cache.getVal
\* History: the number of Set and Delete calls completed so far, that number
\* when the Get call began, per key the number of its last Set and of its
\* last Delete, and what the last Get returned.
ops == cache.ops
getStart == cache.getStart
lastSet == cache.lastSet
lastDelete == cache.lastDelete
getRet == cache.getRet

extVars == <<mgmtVars, lockVars, workerVars, busVars, cacheVars>>

vars == <<processor, decisionInput, evaluation, compiledRules, loadPc, loading,
          maxWorkers, engineRet, eaPc, eaInput, eaRules, eaResults, eaVelocity,
          eaWorkers, eaCancelled, eaPre,
          eaPost, eaMut, repoRules, typologies, hPc, hTypologyResults,
          hSaved, response, matchInput, matchResult,
         extVars>>

-----------------------------------------------------------------------------
(* float64 arithmetic, as exact rationals *)

SeqsUpTo(S, n) == UNION {[1..k -> S] : k \in 0..n}

Abs(x) == IF x < 0 THEN -x ELSE x

RECURSIVE Gcd(_, _)
Gcd(a, b) == IF b = 0 THEN a ELSE Gcd(b, a % b)

Rat(n, d) ==
    LET g == Gcd(Abs(n), Abs(d))
        s == IF d < 0 THEN -1 ELSE 1
    IN  IF n = 0 THEN <<0, 1>> ELSE <<(s * n) \div g, (s * d) \div g>>

RZero == <<0, 1>>
ROne == <<1, 1>>

RAdd(a, b) == Rat(a[1] * b[2] + b[1] * a[2], a[2] * b[2])
RMul(a, b) == Rat(a[1] * b[1], a[2] * b[2])
RDiv(a, b) == Rat(a[1] * b[2], a[2] * b[1])
RGe(a, b) == a[1] * b[2] >= b[1] * a[2]
RGt(a, b) == a[1] * b[2] > b[1] * a[2]
RLe(a, b) == RGe(b, a)
RLt(a, b) == RGt(b, a)

-----------------------------------------------------------------------------
(* internal/domain: outcomes, statuses, modes *)

RuleOutcomePass == ".pass"
RuleOutcomeFail == ".fail"
RuleOutcomeReview == ".review"
RuleOutcomeError == ".err"

StatusAlert == "ALRT"
StatusNoAlert == "NALT"

ModeDetection == "detection"
ModeCompliance == "compliance"

\* The threshold NewProcessor sets: 0.7.
DefaultAlertThreshold == <<7, 10>>

-----------------------------------------------------------------------------
(* internal/tadp: the decision processor *)

NoEvaluation == [Status |-> "none"]

\* One pass of aggregate's loop over the rule results, from index i.
RECURSIVE aggregateLoop(_, _, _, _)
aggregateLoop(p, results, i, agg) ==
    IF i > Len(results) THEN agg
    ELSE
        LET r == results[i]
            weight == IF RLe(r.Weight, RZero) THEN ROne ELSE r.Weight
            crit == agg.HasCriticalFailure \/ r.SubRuleRef = RuleOutcomeFail
            trig == IF r.SubRuleRef = RuleOutcomeFail
                        \/ r.SubRuleRef = RuleOutcomeReview
                    THEN agg.RulesTriggered + 1
                    ELSE agg.RulesTriggered
            next == IF p.UseWeightedScoring
                    THEN [AggregateScore |-> RAdd(agg.AggregateScore, RMul(r.Score, weight)),
                          TotalWeight |-> RAdd(agg.TotalWeight, weight),
                          RulesTriggered |-> trig,
                          HasCriticalFailure |-> crit]
                    ELSE [AggregateScore |-> RAdd(agg.AggregateScore, r.Score),
                          TotalWeight |-> RAdd(agg.TotalWeight, ROne),
                          RulesTriggered |-> trig,
                          HasCriticalFailure |-> crit]
        IN  aggregateLoop(p, results, i + 1, next)

EmptyAggregate ==
    [AggregateScore |-> RZero, TotalWeight |-> RZero,
     RulesTriggered |-> 0, HasCriticalFailure |-> FALSE]

\* A bug aggregate could have: the .fail outcome never raises the critical flag.
aggregateNoCritical(p, results) ==
    LET agg == aggregateLoop(p, results, 1, EmptyAggregate)
        norm == IF RGt(agg.TotalWeight, RZero)
                THEN [agg EXCEPT !.AggregateScore = RDiv(agg.AggregateScore, agg.TotalWeight)]
                ELSE agg
    IN  [norm EXCEPT !.HasCriticalFailure = FALSE]

\* A bug aggregate could have: the weighted sum is never divided by the total weight.
aggregateUnnormalized(p, results) ==
    aggregateLoop(p, results, 1, EmptyAggregate)

\* A bug aggregate could have: the rule weights are used even when weighted
\* scoring is off.
aggregateAlwaysWeighted(p, results) ==
    IF Len(results) = 0 THEN EmptyAggregate
    ELSE
        LET agg == aggregateLoop([p EXCEPT !.UseWeightedScoring = TRUE],
                                 results, 1, EmptyAggregate)
        IN  IF RGt(agg.TotalWeight, RZero)
            THEN [agg EXCEPT !.AggregateScore = RDiv(agg.AggregateScore, agg.TotalWeight)]
            ELSE agg

aggregate(p, results) ==
    IF Len(results) = 0 THEN EmptyAggregate
    ELSE
        LET agg == aggregateLoop(p, results, 1, EmptyAggregate)
        IN  IF RGt(agg.TotalWeight, RZero)
            THEN [agg EXCEPT !.AggregateScore = RDiv(agg.AggregateScore, agg.TotalWeight)]
            ELSE agg

buildTypologyResults(p, rules, agg) ==
    IF Len(rules) = 0 THEN <<>>
    ELSE <<[TypologyID |-> "fraud-detection-001",
            Score |-> agg.AggregateScore,
            Threshold |-> p.AlertThreshold,
            Triggered |-> RGe(agg.AggregateScore, p.AlertThreshold)
                              \/ agg.HasCriticalFailure]>>

\* Process's loop over the typology results, from index i:
\* <<anyTypologyTriggered, maxTypologyScore>>.
RECURSIVE typologyLoop(_, _, _)
typologyLoop(ts, i, acc) ==
    IF i > Len(ts) THEN acc
    ELSE typologyLoop(ts, i + 1,
             <<acc[1] \/ ts[i].Triggered,
               IF RGt(ts[i].Score, acc[2]) THEN ts[i].Score ELSE acc[2]>>)

Process(p, input) ==
    LET aggResult == aggregate(p, input.RuleResults)
        meta == [RulesEvaluated |-> Len(input.RuleResults),
                 TypologiesEvaluated |-> Len(input.TypologyResults)]
    IN  IF Len(input.TypologyResults) > 0
        THEN
            LET t == typologyLoop(input.TypologyResults, 1, <<FALSE, RZero>>)
            IN  [Status |-> IF t[1] \/ aggResult.HasCriticalFailure
                            THEN StatusAlert ELSE StatusNoAlert,
                 Score |-> t[2],
                 RuleResults |-> input.RuleResults,
                 TypologyResults |-> input.TypologyResults,
                 Metadata |-> meta]
        ELSE
            [Status |-> IF aggResult.HasCriticalFailure
                           \/ RGe(aggResult.AggregateScore, p.AlertThreshold)
                        THEN StatusAlert ELSE StatusNoAlert,
             Score |-> aggResult.AggregateScore,
             RuleResults |-> input.RuleResults,
             TypologyResults |-> buildTypologyResults(p, input.RuleResults, aggResult),
             Metadata |-> meta]

-----------------------------------------------------------------------------
(* internal/rules: expressions, compilation, evaluation of one rule *)

Nil == "nil"

\* A band limit that is not set (a nil *float64).
NoLimit == <<>>

\* A slot of the results slice nothing has been written to.
NoResult == [RuleID |-> Nil]

\* The CEL expressions the model knows, by their text.
ExprHighValue == "amount > 10000.0 ? 1.0 : 0.0"
ExprSameAccount == "debtor_id == creditor_id"
ExprCurrency == "currency"
ExprBroken == "this is not valid CEL !!!"
ExprVelocityRatio == "10 / velocity_count > 1 ? 1.0 : 0.0"

\* env.Compile and ast.OutputType(): the output type inferred for an
\* expression, or "invalid" when it does not compile.
ExprOutputType(expr) ==
    CASE expr = ExprHighValue -> "double"
      [] expr = ExprSameAccount -> "bool"
      [] expr = ExprVelocityRatio -> "double"
      [] expr = ExprCurrency -> "string"
      [] OTHER -> "invalid"

\* compileRule: an error for an expression that does not compile or whose
\* output type is not bool, double or int; the CompiledRule otherwise.
compileRule(cfg) ==
    IF ExprOutputType(cfg.Expression) \in {"bool", "double", "int"}
    THEN [err |-> Nil, rule |-> [Config |-> cfg, Program |-> cfg.Expression]]
    ELSE [err |-> cfg.ID, rule |-> Nil]

\* rule.Program.Eval(activation): the value of a compiled expression.
ProgramEval(program, activation) ==
    CASE program = ExprHighValue ->
            [err |-> Nil, type |-> "double",
             v |-> IF RGt(activation.amount, <<10000, 1>>) THEN ROne ELSE RZero]
      [] program = ExprSameAccount ->
            [err |-> Nil, type |-> "bool",
             v |-> activation.debtor_id = activation.creditor_id]
      [] program = ExprVelocityRatio ->
            IF activation.velocity_count = 0
            THEN [err |-> "division by zero", type |-> Nil, v |-> Nil]
            ELSE [err |-> Nil, type |-> "double",
                  v |-> IF 10 \div activation.velocity_count > 1
                        THEN ROne ELSE RZero]
      [] OTHER -> [err |-> "no such program", type |-> Nil, v |-> Nil]

toScore(val) ==
    CASE val.type = "bool" -> IF val.v THEN ROne ELSE RZero
      [] val.type = "double" -> val.v
      [] val.type = "int" -> <<val.v, 1>>
      [] OTHER -> RZero

\* A band loop whose upper limit is inclusive.
RECURSIVE matchBandLoopUpperInclusive(_, _, _)
matchBandLoopUpperInclusive(score, bands, i) ==
    IF i > Len(bands)
    THEN [SubRuleRef |-> RuleOutcomePass, Reason |-> "no matching band"]
    ELSE
        LET band == bands[i]
            hasUpper == band.UpperLimit # NoLimit
            lower == IF band.LowerLimit # NoLimit THEN band.LowerLimit ELSE RZero
        IN  IF RGe(score, lower) /\ (~hasUpper \/ RLe(score, band.UpperLimit))
            THEN [SubRuleRef |-> band.SubRuleRef, Reason |-> band.Reason]
            ELSE matchBandLoopUpperInclusive(score, bands, i + 1)

\* A band loop that returns the first band that does not contain the score.
RECURSIVE matchBandLoopInverted(_, _, _)
matchBandLoopInverted(score, bands, i) ==
    IF i > Len(bands)
    THEN [SubRuleRef |-> RuleOutcomePass, Reason |-> "no matching band"]
    ELSE
        LET band == bands[i]
            hasUpper == band.UpperLimit # NoLimit
            lower == IF band.LowerLimit # NoLimit THEN band.LowerLimit ELSE RZero
        IN  IF ~(RGe(score, lower) /\ (~hasUpper \/ RLt(score, band.UpperLimit)))
            THEN [SubRuleRef |-> band.SubRuleRef, Reason |-> band.Reason]
            ELSE matchBandLoopInverted(score, bands, i + 1)

\* matchBand's loop over the bands, from index i.
RECURSIVE matchBandLoop(_, _, _)
matchBandLoop(score, bands, i) ==
    IF i > Len(bands)
    THEN [SubRuleRef |-> RuleOutcomePass, Reason |-> "no matching band"]
    ELSE
        LET band == bands[i]
            hasUpper == band.UpperLimit # NoLimit
            lower == IF band.LowerLimit # NoLimit THEN band.LowerLimit ELSE RZero
            upper == IF hasUpper THEN band.UpperLimit ELSE <<1000000000, 1>>
        IN  IF RGe(score, lower) /\ (~hasUpper \/ RLt(score, upper))
            THEN [SubRuleRef |-> band.SubRuleRef, Reason |-> band.Reason]
            ELSE matchBandLoop(score, bands, i + 1)

matchBand(score, bands) == matchBandLoop(score, bands, 1)

\* evaluateRule. Config is not a field of domain.RuleResult: it records which
\* compiled rule produced the result.
\* A bug evaluateRule could have: the error of Eval is dropped and the zero
\* score goes through the bands.
evaluateRuleErrorDropped(rule, activation, input) ==
    LET out == ProgramEval(rule.Program, activation)
        score == IF out.err # Nil THEN RZero ELSE toScore(out)
        band == matchBand(score, rule.Config.Bands)
    IN  [RuleID |-> rule.Config.ID, Weight |-> rule.Config.Weight,
         SubRuleRef |-> band.SubRuleRef, Reason |-> band.Reason,
         Score |-> score, Config |-> rule.Config]

evaluateRule(rule, activation, input) ==
    LET out == ProgramEval(rule.Program, activation)
    IN  IF out.err # Nil
        THEN [RuleID |-> rule.Config.ID, Weight |-> rule.Config.Weight,
              SubRuleRef |-> RuleOutcomeError, Reason |-> "evaluation error",
              Score |-> RZero, Config |-> rule.Config]
        ELSE
            LET score == toScore(out)
                band == matchBand(score, rule.Config.Bands)
            IN  [RuleID |-> rule.Config.ID, Weight |-> rule.Config.Weight,
                 SubRuleRef |-> band.SubRuleRef, Reason |-> band.Reason,
                 Score |-> score, Config |-> rule.Config]

\* A velocityGetter call that was not made.
NoVelocity == [err |-> Nil, count |-> 0]

\* A bug EvaluateAll could have: the count is used whatever the error.
velocityCountUnchecked(velocity) == velocity.count

\* EvaluateAll's velocityCount: the count the getter returned, 0 when it
\* returned an error or was not called.
velocityCount(velocity) ==
    IF velocity.err = Nil THEN velocity.count ELSE 0

\* The variables EvaluateAll prepares from its input and the velocity count.
activationVariables(input, velocity) ==
    [velocity_count |-> velocityCount(velocity), amount |-> input.Amount,
     currency |-> input.Currency, debtor_id |-> input.DebtorID,
     creditor_id |-> input.CreditorID, tx_type |-> input.Type,
     old_balance |-> <<0, 1>>, new_balance |-> <<0, 1>>]

\* The merge loop: activation[k] = v for every entry of AdditionalData.
mergeAdditionalData(activation, additionalData) ==
    [k \in DOMAIN activation \cup DOMAIN additionalData |->
        IF k \in DOMAIN additionalData THEN additionalData[k] ELSE activation[k]]

\* The activation EvaluateAll builds from its input and the velocity count.
Activation(input, velocity) ==
    mergeAdditionalData(activationVariables(input, velocity), input.AdditionalData)

-----------------------------------------------------------------------------
(* Rule configurations and inputs the model draws from *)

RuleIds == {"r1", "r2"}

BandsReview ==
    <<[LowerLimit |-> ROne, UpperLimit |-> NoLimit,
       SubRuleRef |-> RuleOutcomeReview, Reason |-> "High value"],
      [LowerLimit |-> RZero, UpperLimit |-> ROne,
       SubRuleRef |-> RuleOutcomePass, Reason |-> "Normal"]>>

BandsFail ==
    <<[LowerLimit |-> ROne, UpperLimit |-> NoLimit,
       SubRuleRef |-> RuleOutcomeFail, Reason |-> "Same account"],
      [LowerLimit |-> RZero, UpperLimit |-> ROne,
       SubRuleRef |-> RuleOutcomePass, Reason |-> "Normal"]>>

RuleConfig(id, version, expr, bands, weight, enabled) ==
    [ID |-> id, Version |-> version, Expression |-> expr, Bands |-> bands,
     Weight |-> weight, Enabled |-> enabled]

HighValueV1 == RuleConfig("r1", "1.0.0", ExprHighValue, BandsReview, <<3, 10>>, TRUE)
HighValueV2 == RuleConfig("r1", "2.0.0", ExprHighValue, <<>>, ROne, TRUE)
SameAccount == RuleConfig("r2", "1.0.0", ExprSameAccount, BandsFail, ROne, TRUE)
SameAccountOff == RuleConfig("r2", "1.0.0", ExprSameAccount, BandsFail, ROne, FALSE)
Broken == RuleConfig("r2", "1.0.0", ExprBroken, <<>>, ROne, TRUE)

\* A rule whose expression divides by the velocity count.
VelocityRatio ==
    RuleConfig("r1", "1.0.0", ExprVelocityRatio, BandsReview, <<3, 10>>, TRUE)

\* Bands whose outcome is a tag of the rule author's own.
BandsFlag ==
    <<[LowerLimit |-> ROne, UpperLimit |-> NoLimit,
       SubRuleRef |-> ".flag", Reason |-> "Flagged"],
      [LowerLimit |-> RZero, UpperLimit |-> ROne,
       SubRuleRef |-> RuleOutcomePass, Reason |-> "Normal"]>>

Flagged == RuleConfig("r2", "1.0.0", ExprSameAccount, BandsFlag, ROne, TRUE)

RuleCatalog == {HighValueV1, HighValueV2, SameAccount, SameAccountOff, Broken}

\* The longest config list handed to LoadRules and ReloadRules.
MaxConfigs == 2

ConfigLists == SeqsUpTo(RuleCatalog, MaxConfigs)

EvaluateInputs ==
    {[Type |-> "transfer", DebtorID |-> "A", CreditorID |-> "A",
      Amount |-> <<20000, 1>>, Currency |-> "USD", VelocityWindow |-> 0,
      AdditionalData |-> <<>>],
     [Type |-> "transfer", DebtorID |-> "A", CreditorID |-> "B",
      Amount |-> <<500, 1>>, Currency |-> "USD", VelocityWindow |-> 0,
      AdditionalData |-> <<>>]}

\* What a velocityGetter may return: a count, or an error with any count.
Velocities ==
    {[err |-> Nil, count |-> 0], [err |-> Nil, count |-> 3],
     [err |-> "failed to count transactions", count |-> 0],
     [err |-> "failed to count transactions", count |-> 3]}

-----------------------------------------------------------------------------
(* internal/rules: the engine's live rule set *)

EmptyMap == <<>>

\* The maxWorkers main builds the engine with.
MainMaxWorkers == 100

\* NewEngine's maxWorkers when it is given none.
DefaultMaxWorkers == 10

\* NewEngine: the engine's maxWorkers for the one it is given.
NewEngineMaxWorkers(n) ==
    IF n <= 0 THEN DefaultMaxWorkers ELSE n

Put(m, k, v) == [x \in DOMAIN m \cup {k} |-> IF x = k THEN v ELSE m[x]]

\* The configs a rule map holds, by rule id.
LiveConfigs(rules) == [id \in DOMAIN rules |-> rules[id].Config]

NoReturn == [op |-> "none", err |-> Nil]

\* No EvaluateAll call in progress.
EvaluateAllAtRest ==
    /\ eaPc = "idle"
    /\ eaInput = Nil
    /\ eaRules = <<>>
    /\ eaResults = <<>>
    /\ eaVelocity = NoVelocity
    /\ eaWorkers = <<>>
    /\ eaCancelled = FALSE
    /\ eaPre = EmptyMap
    /\ eaPost = EmptyMap
    /\ eaMut = "none"

NoMatchInput == [Scores |-> <<>>, Bands |-> <<>>]

NoResponse == [handler |-> "none", status |-> 0, body |-> [none |-> TRUE]]

\* Nothing written to the transactions and evaluations tables.
NothingSaved == [transaction |-> FALSE, evaluation |-> FALSE]

\* No server: an empty repository, no typologies, no request in progress.
ApiAtRest ==
    /\ repoRules = EmptyMap
    /\ typologies = EmptyMap
    /\ hPc = "idle"
    /\ hTypologyResults = <<>>
    /\ hSaved = NothingSaved
    /\ response = NoResponse
    /\ matchInput = NoMatchInput
    /\ matchResult = <<>>

\* No message handed to the worker.
NoMessage == [none |-> TRUE]

\* The bufferSize NewChannelBus falls back to.
DefaultBufferSize == 1000

\* The l1TTL NewTwoPhaseCache falls back to, in minutes.
DefaultLocalTTL == 5

\* The maxSize NewLRUCache falls back to.
DefaultLocalMaxSize == 10000

\* No typologies row.
MgmtAtRest == repoTypologies = EmptyMap

\* TypologyEngine.mu free, no EvaluateTypologies call in progress.
LockAtRest ==
    tyEval = [readers |-> 0, pc |-> "idle", iter |-> <<>>, results |-> <<>>]

\* The worker waits for a message.
WorkerAtRest ==
    worker = [pc |-> "idle", msg |-> NoMessage, subscription |-> "", tenantID |-> "",
              typologyResults |-> <<>>, evaluation |-> NoEvaluation, saved |-> <<>>]

\* A bus without subscriptions, no Publish call in progress.
NewChannelBus(size) ==
    [bufferSize |-> size, subscriptions |-> <<>>, closed |-> FALSE,
     messages |-> <<>>, pubPc |-> "idle", pubMsg |-> 0, pubSubs |-> <<>>,
     pubRet |-> Nil, pubLog |-> <<>>, reqPc |-> "idle", reqCount |-> 0,
     reqArgs |-> [tenantID |-> "", topic |-> ""], reqSub |-> 0]

BusAtRest == bus = NewChannelBus(DefaultBufferSize)

\* An empty two-phase cache.
NewTwoPhaseCache(ttl, maxSize) ==
    [l1TTL |-> ttl, local |-> [maxSize |-> maxSize, order |-> <<>>],
     remote |-> EmptyMap, clock |-> 0, hist |-> EmptyMap, uses |-> 0,
     lastUse |-> EmptyMap, getPc |-> "idle", getKey |-> "", getVal |-> Nil,
     getStart |-> 0, getRet |-> NoReturn, ops |-> 0, lastSet |-> EmptyMap,
     lastDelete |-> EmptyMap]

CacheAtRest == cache = NewTwoPhaseCache(DefaultLocalTTL, DefaultLocalMaxSize)

ExtAtRest ==
    /\ MgmtAtRest
    /\ LockAtRest
    /\ WorkerAtRest
    /\ BusAtRest
    /\ CacheAtRest

\* An engine with no rules and no call in progress.
EngineAtRest ==
    /\ compiledRules = EmptyMap
    /\ loadPc = "idle"
    /\ loading = <<>>
    /\ maxWorkers = MainMaxWorkers
    /\ engineRet = NoReturn
    /\ EvaluateAllAtRest

\* A LoadRule that, when the config does not compile, drops the rule the
\* live map holds under its id.
EngineLoadRuleDropOnError(rules, cfg) ==
    LET c == compileRule(cfg)
    IN  IF c.err # Nil
        THEN [err |-> c.err,
              rules |-> [id \in DOMAIN rules \ {cfg.ID} |-> rules[id]]]
        ELSE [err |-> Nil, rules |-> Put(rules, cfg.ID, c.rule)]

\* LoadRule's effect on the rule map, under the write lock.
EngineLoadRule(rules, cfg) ==
    LET c == compileRule(cfg)
    IN  IF c.err # Nil
        THEN [err |-> c.err, rules |-> rules]
        ELSE [err |-> Nil, rules |-> Put(rules, cfg.ID, c.rule)]

\* ReloadRules' loop: builds newRules, stops at the first compile error.
RECURSIVE reloadLoop(_, _, _)
reloadLoop(configs, i, newRules) ==
    IF i > Len(configs)
    THEN [err |-> Nil, rules |-> newRules]
    ELSE IF ~configs[i].Enabled
    THEN reloadLoop(configs, i + 1, newRules)
    ELSE
        LET c == compileRule(configs[i])
        IN  IF c.err # Nil
            THEN [err |-> c.err, rules |-> newRules]
            ELSE reloadLoop(configs, i + 1, Put(newRules, configs[i].ID, c.rule))

\* A reload that clears the live map and fills it config by config, so that
\* a compile error leaves the part built so far.
EngineReloadRulesInPlace(rules, configs) ==
    reloadLoop(configs, 1, EmptyMap)

\* A reload that adds the new rules to the live map and keeps the others.
EngineReloadRulesMerge(rules, configs) ==
    LET r == reloadLoop(configs, 1, rules)
    IN  IF r.err # Nil
        THEN [err |-> r.err, rules |-> rules]
        ELSE r

\* ReloadRules' effect on the rule map, under the write lock: the new map
\* replaces the live one only when every enabled config compiled.
EngineReloadRules(rules, configs) ==
    LET r == reloadLoop(configs, 1, EmptyMap)
    IN  IF r.err # Nil
        THEN [err |-> r.err, rules |-> rules]
        ELSE r

\* History of the live set during an EvaluateAll call.
NoteChange(kind, newRules) ==
    IF eaPc \in {"called", "eval"}
    THEN /\ eaMut' = IF eaMut = "none" THEN kind ELSE "many"
         /\ eaPost' = IF eaMut = "none" THEN LiveConfigs(newRules) ELSE EmptyMap
         /\ UNCHANGED eaPre
    ELSE UNCHANGED eaHist

\* Engine.LoadRule(cfg)
LoadRule(cfg) ==
    LET r == EngineLoadRule(compiledRules, cfg)
    IN  /\ loadPc = "idle"
        /\ compiledRules' = r.rules
        /\ engineRet' = [op |-> "LoadRule", err |-> r.err]
        /\ IF r.err = Nil THEN NoteChange("load", r.rules) ELSE UNCHANGED eaHist
        /\ UNCHANGED <<loadPc, loading, maxWorkers, procVars, bandVars, extVars, eaVars, apiVars>>

\* Engine.ValidateRule(cfg): the config is compiled under the read lock and
\* the error of the compilation is returned.
ValidateRule(cfg) ==
    /\ loadPc = "idle"
    /\ engineRet' = [op |-> "ValidateRule", err |-> compileRule(cfg).err]
    /\ UNCHANGED <<compiledRules, loadPc, loading, maxWorkers, procVars, bandVars, extVars, eaVars,
                   eaHist, apiVars>>

\* Engine.LoadRules(configs), one config per step, each LoadRule taking the
\* write lock on its own. main calls it once, before anything else uses the
\* engine: the call is in progress in the initial state.
LoadRulesStep ==
    /\ loadPc = "loop"
    /\ IF loading = <<>>
       THEN /\ loadPc' = "idle"
            /\ engineRet' = [op |-> "LoadRules", err |-> Nil]
            /\ UNCHANGED <<compiledRules, loading, eaHist>>
       ELSE IF ~Head(loading).Enabled
       THEN /\ loading' = Tail(loading)
            /\ UNCHANGED <<compiledRules, loadPc, engineRet, eaHist>>
       ELSE
           LET r == EngineLoadRule(compiledRules, Head(loading))
           IN  IF r.err # Nil
               THEN /\ loadPc' = "idle"
                    /\ loading' = <<>>
                    /\ engineRet' = [op |-> "LoadRules", err |-> r.err]
                    /\ UNCHANGED <<compiledRules, eaHist>>
               ELSE /\ compiledRules' = r.rules
                    /\ loading' = Tail(loading)
                    /\ engineRet' = [op |-> "LoadRule", err |-> Nil]
                    /\ NoteChange("load", r.rules)
                    /\ UNCHANGED loadPc
    /\ UNCHANGED <<maxWorkers, procVars, bandVars, extVars, eaVars, apiVars>>

\* Engine.ReloadRules(configs): one step, the write lock is held throughout.
ReloadRules(configs) ==
    LET r == EngineReloadRules(compiledRules, configs)
    IN  /\ loadPc = "idle"
        /\ compiledRules' = r.rules
        /\ engineRet' = [op |-> "ReloadRules", err |-> r.err]
        /\ IF r.err = Nil THEN NoteChange("reload", r.rules) ELSE UNCHANGED eaHist
        /\ UNCHANGED <<loadPc, loading, maxWorkers, procVars, bandVars, extVars, eaVars, apiVars>>

-----------------------------------------------------------------------------
(* internal/rules: one EvaluateAll call *)

Orderings(S) ==
    {f \in [1..Cardinality(S) -> S] : \A x \in S : \E i \in DOMAIN f : f[i] = x}

\* The call is made; it has yet to take the read lock.
EvaluateAllCall(input) ==
    /\ loadPc = "idle"
    /\ eaPc = "idle"
    /\ eaPc' = "called"
    /\ eaInput' = input
    /\ eaRules' = <<>>
    /\ eaResults' = <<>>
    /\ eaVelocity' = NoVelocity
    /\ eaWorkers' = <<>>
    /\ eaCancelled' = FALSE
    /\ eaPre' = LiveConfigs(compiledRules)
    /\ eaPost' = LiveConfigs(compiledRules)
    /\ eaMut' = "none"

\* Under the read lock the live rules are copied into a local slice, in the
\* order the map iteration yields them. With no rules the call returns nil.
\* Otherwise the velocity getter is asked for the count when the input has
\* a velocity window, and the results slice is allocated.
EvaluateAllSnapshot(velocity) ==
    /\ eaPc = "called"
    /\ \E order \in Orderings(DOMAIN compiledRules) :
           eaRules' = [i \in DOMAIN order |-> compiledRules[order[i]]]
    /\ IF DOMAIN compiledRules = {}
       THEN /\ eaPc' = "returned"
            /\ eaResults' = <<>>
            /\ UNCHANGED <<eaVelocity, eaWorkers>>
       ELSE /\ eaPc' = "eval"
            /\ eaVelocity' = IF eaInput.VelocityWindow > 0 THEN velocity
                              ELSE NoVelocity
            /\ eaResults' = [i \in 1..Cardinality(DOMAIN compiledRules) |-> NoResult]
            /\ eaWorkers' = [i \in 1..Cardinality(DOMAIN compiledRules) |-> "spawned"]
    /\ UNCHANGED <<eaInput, eaCancelled, eaHist>>

\* The rule the goroutine of slot i evaluates, in place of the one it was
\* started with: whatever the live map holds under that id at that moment.
liveRule(i) ==
    IF eaRules[i].Config.ID \in DOMAIN compiledRules
    THEN compiledRules[eaRules[i].Config.ID]
    ELSE eaRules[i]

\* The rule the goroutine of slot i was started with: the local slice's.
snapshotRule(i) == eaRules[i]

\* A semaphore that never fills up.
semAlwaysFree(workers, capacity) ==
    TRUE

\* sem, a channel of capacity maxWorkers, takes one more token: fewer than
\* maxWorkers goroutines hold one.
semFree(workers, capacity) ==
    Cardinality({i \in DOMAIN workers : workers[i] = "running"}) < capacity

\* The goroutine of slot i puts its token into sem.
WorkerAcquire(i) ==
    /\ eaPc = "eval"
    /\ i \in DOMAIN eaWorkers
    /\ eaWorkers[i] = "spawned"
    /\ semFree(eaWorkers, maxWorkers)
    /\ eaWorkers' = [eaWorkers EXCEPT ![i] = "running"]
    /\ UNCHANGED <<eaPc, eaInput, eaRules, eaResults, eaVelocity, eaCancelled, eaHist>>

\* The goroutine of slot i evaluates its rule, writes results[i], takes its
\* token back and tells the wait group it is done.
WorkerEvaluate(i) ==
    /\ eaPc = "eval"
    /\ i \in DOMAIN eaWorkers
    /\ eaWorkers[i] = "running"
    /\ eaResults' = [eaResults EXCEPT ![i] =
           evaluateRule(snapshotRule(i), Activation(eaInput, eaVelocity), eaInput)]
    /\ eaWorkers' = [eaWorkers EXCEPT ![i] = "done"]
    /\ UNCHANGED <<eaPc, eaInput, eaRules, eaVelocity, eaCancelled, eaHist>>

\* The goroutine of slot i from its start to its end in one step: it finds
\* sem free, evaluates its rule and writes results[i].
EvaluateRule(i) ==
    /\ eaPc = "eval"
    /\ i \in DOMAIN eaResults
    /\ eaWorkers[i] = "spawned"
    /\ semFree(eaWorkers, maxWorkers)
    /\ eaResults' = [eaResults EXCEPT ![i] =
           evaluateRule(snapshotRule(i), Activation(eaInput, eaVelocity), eaInput)]
    /\ eaWorkers' = [eaWorkers EXCEPT ![i] = "done"]
    /\ UNCHANGED <<eaPc, eaInput, eaRules, eaVelocity, eaCancelled, eaHist>>

\* A wait that is over as soon as one goroutine is done.
wgWaitForOne(workers) ==
    \E i \in DOMAIN workers : workers[i] = "done"

\* wg.Wait() is over: every goroutine has called wg.Done().
wgWait(workers) ==
    \A i \in DOMAIN workers : workers[i] = "done"

\* wg.Wait() is over and the call returns results.
EvaluateAllReturn ==
    /\ eaPc = "eval"
    /\ wgWait(eaWorkers)
    /\ eaPc' = "returned"
    /\ UNCHANGED <<eaInput, eaRules, eaResults, eaVelocity, eaWorkers,
                   eaCancelled, eaHist>>

\* The caller cancels the ctx of the call in progress.
CancelContext ==
    /\ eaPc \in {"called", "eval"}
    /\ ~eaCancelled
    /\ eaCancelled' = TRUE
    /\ UNCHANGED <<eaPc, eaInput, eaRules, eaResults, eaVelocity, eaWorkers, eaHist>>

\* The caller has taken the results.
EvaluateAllDone ==
    /\ eaPc = "returned"
    /\ eaPc' = "idle"
    /\ eaInput' = Nil
    /\ eaRules' = <<>>
    /\ eaResults' = <<>>
    /\ eaVelocity' = NoVelocity
    /\ eaWorkers' = <<>>
    /\ eaCancelled' = FALSE
    /\ eaPre' = EmptyMap
    /\ eaPost' = EmptyMap
    /\ eaMut' = "none"

-----------------------------------------------------------------------------
(* The engine driven through its own methods *)

InitEngine ==
    /\ ExtAtRest
    /\ processor = [AlertThreshold |-> DefaultAlertThreshold,
                    UseWeightedScoring |-> TRUE, Mode |-> ModeDetection]
    /\ decisionInput = [RuleResults |-> <<>>, TypologyResults |-> <<>>]
    /\ evaluation = NoEvaluation
    /\ compiledRules = EmptyMap
    /\ loadPc = "loop"
    /\ loading \in ConfigLists
    /\ maxWorkers = MainMaxWorkers
    /\ engineRet = NoReturn
    /\ EvaluateAllAtRest
    /\ ApiAtRest

NextEngine ==
    \/ \E cfg \in RuleCatalog : LoadRule(cfg)
    \/ LoadRulesStep
    \/ \E configs \in ConfigLists : ReloadRules(configs)
    \/ \E input \in EvaluateInputs :
           EvaluateAllCall(input) /\ UNCHANGED <<procVars, bandVars, extVars, engineVars, apiVars>>
    \/ \E velocity \in Velocities :
           EvaluateAllSnapshot(velocity)
               /\ UNCHANGED <<procVars, bandVars, extVars, engineVars, apiVars>>
    \/ \E i \in 1..Cardinality(RuleIds) :
           EvaluateRule(i) /\ UNCHANGED <<procVars, bandVars, extVars, engineVars, apiVars>>
    \/ EvaluateAllReturn /\ UNCHANGED <<procVars, bandVars, extVars, engineVars, apiVars>>
    \/ EvaluateAllDone /\ UNCHANGED <<procVars, bandVars, extVars, engineVars, apiVars>>

SpecEngine == InitEngine /\ [][NextEngine]_vars

\* The engine's loading and validating methods alone, no EvaluateAll call.
NextValidate ==
    \/ \E cfg \in RuleCatalog : LoadRule(cfg)
    \/ \E cfg \in RuleCatalog : ValidateRule(cfg)
    \/ LoadRulesStep
    \/ \E configs \in ConfigLists : ReloadRules(configs)

SpecValidate == InitEngine /\ [][NextValidate]_vars

-----------------------------------------------------------------------------
(* EvaluateAll's goroutines, step by step *)

\* The most rules the engine holds when its goroutines are followed.
MaxWorkerRules == 3

\* A third rule, for an engine with more rules than workers.
SameAccountR3 == [SameAccount EXCEPT !.ID = "r3"]

WorkerRules == {HighValueV1, SameAccount, SameAccountR3}

\* The maxWorkers NewEngine is called with.
WorkerCounts == {0, 1, 2}

\* An engine built by NewEngine that has loaded some of WorkerRules, no call
\* in progress.
InitWorkers ==
    /\ ExtAtRest
    /\ processor = [AlertThreshold |-> DefaultAlertThreshold,
                    UseWeightedScoring |-> TRUE, Mode |-> ModeDetection]
    /\ decisionInput = [RuleResults |-> <<>>, TypologyResults |-> <<>>]
    /\ evaluation = NoEvaluation
    /\ \E configs \in SeqsUpTo(WorkerRules, MaxWorkerRules) :
           compiledRules = EngineReloadRules(EmptyMap, configs).rules
    /\ loadPc = "idle"
    /\ loading = <<>>
    /\ \E n \in WorkerCounts : maxWorkers = NewEngineMaxWorkers(n)
    /\ engineRet = [op |-> "LoadRules", err |-> Nil]
    /\ EvaluateAllAtRest
    /\ ApiAtRest

\* One EvaluateAll call after the other, each goroutine taking its steps on
\* its own, and the caller free to cancel the ctx.
NextWorkers ==
    \/ \E input \in EvaluateInputs :
           EvaluateAllCall(input) /\ UNCHANGED <<procVars, bandVars, extVars, engineVars, apiVars>>
    \/ EvaluateAllSnapshot(NoVelocity)
           /\ UNCHANGED <<procVars, bandVars, extVars, engineVars, apiVars>>
    \/ \E i \in 1..MaxWorkerRules :
           WorkerAcquire(i) /\ UNCHANGED <<procVars, bandVars, extVars, engineVars, apiVars>>
    \/ \E i \in 1..MaxWorkerRules :
           WorkerEvaluate(i) /\ UNCHANGED <<procVars, bandVars, extVars, engineVars, apiVars>>
    \/ EvaluateAllReturn /\ UNCHANGED <<procVars, bandVars, extVars, engineVars, apiVars>>
    \/ EvaluateAllDone /\ UNCHANGED <<procVars, bandVars, extVars, engineVars, apiVars>>
    \/ CancelContext /\ UNCHANGED <<procVars, bandVars, extVars, engineVars, apiVars>>

SpecWorkers == InitWorkers /\ [][NextWorkers]_vars

\* The metadata of a request: none, balances, a key of the caller's own, and
\* keys that bear the names of the variables EvaluateAll prepares.
AdditionalDatas ==
    {<<>>,
     [old_balance |-> <<900, 1>>, new_balance |-> <<0, 1>>],
     [note |-> "gift"],
     [amount |-> <<1, 1>>],
     [currency |-> "EUR"],
     [debtor_id |-> "B"],
     [creditor_id |-> "A"],
     [tx_type |-> "fee"],
     [velocity_count |-> 0]}

\* The inputs the server builds from validated requests with that metadata.
MetadataInputs ==
    {[Type |-> "transfer", DebtorID |-> "A", CreditorID |-> creditor,
      Amount |-> amount, Currency |-> "USD", VelocityWindow |-> 3600,
      AdditionalData |-> data] :
        creditor \in {"A", "B"}, amount \in {<<20000, 1>>, <<500, 1>>},
        data \in AdditionalDatas}

\* One EvaluateAll call after the other for requests with metadata, the
\* velocity provider counting 3 transactions or failing.
NextActivation ==
    \/ \E input \in MetadataInputs :
           EvaluateAllCall(input) /\ UNCHANGED <<procVars, bandVars, extVars, engineVars, apiVars>>
    \/ \E velocity \in Velocities :
           EvaluateAllSnapshot(velocity)
               /\ UNCHANGED <<procVars, bandVars, extVars, engineVars, apiVars>>
    \/ \E i \in 1..MaxWorkerRules :
           EvaluateRule(i) /\ UNCHANGED <<procVars, bandVars, extVars, engineVars, apiVars>>
    \/ EvaluateAllReturn /\ UNCHANGED <<procVars, bandVars, extVars, engineVars, apiVars>>
    \/ EvaluateAllDone /\ UNCHANGED <<procVars, bandVars, extVars, engineVars, apiVars>>

SpecActivation == InitWorkers /\ [][NextActivation]_vars

-----------------------------------------------------------------------------
(* Process on bounded inputs *)

MaxRuleResults == 2
MaxTypologyResults == 2

RuleIdAt(i) == IF i = 1 THEN "r1" ELSE IF i = 2 THEN "r2" ELSE "r3"

\* Scores below, at and above the thresholds; weights that are defaulted (0) or not.
InputScores == {<<3, 10>>, <<7, 10>>}
InputWeights == {<<-1, 1>>, RZero, <<5, 1>>}
InputOutcomes == {RuleOutcomePass, RuleOutcomeReview, RuleOutcomeFail, RuleOutcomeError}

InputRuleResults ==
    [SubRuleRef : InputOutcomes, Score : InputScores, Weight : InputWeights]

\* Typology results as the typology engine builds them: Triggered is
\* Score >= Threshold. A rule expression may score below zero, and so may a
\* typology.
InputTypologyScores == {<<-3, 10>>, <<3, 10>>, <<9, 10>>}

InputTypologyResults ==
    {[TypologyID |-> "t1", Score |-> s, Threshold |-> <<1, 2>>,
      Triggered |-> RGe(s, <<1, 2>>)] : s \in InputTypologyScores}

Processors ==
    [AlertThreshold : {<<1, 2>>, DefaultAlertThreshold},
     UseWeightedScoring : BOOLEAN,
     Mode : {ModeDetection, ModeCompliance}]

WithRuleIds(rs) == [i \in 1..Len(rs) |->
    [RuleID |-> RuleIdAt(i), SubRuleRef |-> rs[i].SubRuleRef,
     Score |-> rs[i].Score, Weight |-> rs[i].Weight]]

InitProcess ==
    /\ ExtAtRest
    /\ processor \in Processors
    /\ \E rs \in SeqsUpTo(InputRuleResults, MaxRuleResults) :
       \E ts \in SeqsUpTo(InputTypologyResults, MaxTypologyResults) :
           decisionInput = [RuleResults |-> WithRuleIds(rs), TypologyResults |-> ts]
    /\ evaluation = NoEvaluation
    /\ EngineAtRest
    /\ ApiAtRest

CallProcess ==
    /\ evaluation = NoEvaluation
    /\ evaluation' = Process(processor, decisionInput)
    /\ UNCHANGED <<bandVars, extVars, processor, decisionInput, engineVars, eaVars, eaHist, apiVars>>

NextProcess == CallProcess

SpecProcess == InitProcess /\ [][NextProcess]_vars

-----------------------------------------------------------------------------
(* internal/rules: the typology engine *)

TypologyT1 ==
    [ID |-> "t1",
     Rules |-> <<[RuleID |-> "r1", Weight |-> <<6, 10>>],
                 [RuleID |-> "r2", Weight |-> <<4, 10>>]>>,
     AlertThreshold |-> <<1, 2>>, Enabled |-> TRUE]

TypologyT1Off == [TypologyT1 EXCEPT !.Enabled = FALSE]

TypologyCatalog == {TypologyT1, TypologyT1Off}

\* The longest typology list handed to LoadTypologies.
MaxTypologies == 1

TypologyLists == SeqsUpTo(TypologyCatalog, MaxTypologies)

\* LoadTypologies' loop: a fresh map of the enabled typologies.
RECURSIVE loadTypologiesLoop(_, _, _)
loadTypologiesLoop(list, i, m) ==
    IF i > Len(list) THEN m
    ELSE loadTypologiesLoop(list, i + 1,
             IF list[i].Enabled THEN Put(m, list[i].ID, list[i]) ELSE m)

LoadTypologies(list) == loadTypologiesLoop(list, 1, EmptyMap)

TypologyCount == Cardinality(DOMAIN typologies)

\* The ruleID -> score map EvaluateTypologies builds: a later result of the
\* same rule overwrites an earlier one.
RECURSIVE ruleScoresLoop(_, _, _)
ruleScoresLoop(ruleResults, i, m) ==
    IF i > Len(ruleResults) THEN m
    ELSE ruleScoresLoop(ruleResults, i + 1,
             Put(m, ruleResults[i].RuleID, ruleResults[i].Score))

\* evaluateTypology's loop over the typology's rules: rules without a result
\* are skipped.
RECURSIVE typologyScoreLoop(_, _, _, _)
typologyScoreLoop(rules, ruleScores, i, totalScore) ==
    IF i > Len(rules) THEN totalScore
    ELSE IF rules[i].RuleID \notin DOMAIN ruleScores
    THEN typologyScoreLoop(rules, ruleScores, i + 1, totalScore)
    ELSE typologyScoreLoop(rules, ruleScores, i + 1,
             RAdd(totalScore, RMul(ruleScores[rules[i].RuleID], rules[i].Weight)))

\* A loop that records every listed rule, an absent one with score 0.
RECURSIVE contributionsLoopZeroed(_, _, _, _)
contributionsLoopZeroed(rules, ruleScores, i, contributions) ==
    IF i > Len(rules) THEN contributions
    ELSE
        LET ruleScore == IF rules[i].RuleID \in DOMAIN ruleScores
                         THEN ruleScores[rules[i].RuleID] ELSE RZero
        IN  contributionsLoopZeroed(rules, ruleScores, i + 1,
                Append(contributions,
                    [RuleID |-> rules[i].RuleID, RuleScore |-> ruleScore,
                     Weight |-> rules[i].Weight,
                     Contribution |-> RMul(ruleScore, rules[i].Weight)]))

\* evaluateTypology's loop again, for result.Contributions: one record per
\* listed rule that has a result, none for a rule that has not.
RECURSIVE contributionsLoop(_, _, _, _)
contributionsLoop(rules, ruleScores, i, contributions) ==
    IF i > Len(rules) THEN contributions
    ELSE IF rules[i].RuleID \notin DOMAIN ruleScores
    THEN contributionsLoop(rules, ruleScores, i + 1, contributions)
    ELSE contributionsLoop(rules, ruleScores, i + 1,
             Append(contributions,
                 [RuleID |-> rules[i].RuleID,
                  RuleScore |-> ruleScores[rules[i].RuleID],
                  Weight |-> rules[i].Weight,
                  Contribution |-> RMul(ruleScores[rules[i].RuleID], rules[i].Weight)]))

evaluateTypology(typology, ruleScores) ==
    LET totalScore == typologyScoreLoop(typology.Rules, ruleScores, 1, RZero)
    IN  [TypologyID |-> typology.ID, Score |-> totalScore,
         Threshold |-> typology.AlertThreshold,
         Triggered |-> RGe(totalScore, typology.AlertThreshold),
         Contributions |-> contributionsLoop(typology.Rules, ruleScores, 1, <<>>)]

\* EvaluateTypologies under the read lock, the map iterated in the given order.
EvaluateTypologies(order, ruleResults) ==
    IF DOMAIN typologies = {} THEN <<>>
    ELSE
        LET ruleScores == ruleScoresLoop(ruleResults, 1, EmptyMap)
        IN  [i \in DOMAIN order |-> evaluateTypology(typologies[order[i]], ruleScores)]

-----------------------------------------------------------------------------
(* The typology engine driven through its own methods *)

\* A typology over a rule no rule result is given for.
TypologyT2 ==
    [ID |-> "t2", Rules |-> <<[RuleID |-> "r3", Weight |-> ROne]>>,
     AlertThreshold |-> <<1, 2>>, Enabled |-> TRUE]

\* A typology as PUT /typologies/{id} saves it when the body gives no
\* alertThreshold: UpdateTypology does not validate the threshold.
TypologyT3 ==
    [ID |-> "t3", Rules |-> <<[RuleID |-> "r3", Weight |-> ROne]>>,
     AlertThreshold |-> RZero, Enabled |-> TRUE]

TypologyInputs == {TypologyT1, TypologyT2, TypologyT3}

\* The longest typology list handed to LoadTypologies here.
MaxTypologyInputs == 2

TypologyInputLists == SeqsUpTo(TypologyInputs, MaxTypologyInputs)

TypologyRuleScores == {RZero, <<1, 2>>, ROne}

\* Rule results as EvaluateAll returns them: at most one per rule id.
TypologyRuleResults ==
    {rs \in SeqsUpTo([RuleID : {"r1", "r2"}, Score : TypologyRuleScores], 2) :
        \A i, j \in DOMAIN rs : i # j => rs[i].RuleID # rs[j].RuleID}

InitTypology ==
    /\ ExtAtRest
    /\ processor = [AlertThreshold |-> DefaultAlertThreshold,
                    UseWeightedScoring |-> TRUE, Mode |-> ModeCompliance]
    /\ \E rs \in TypologyRuleResults :
           decisionInput = [RuleResults |-> rs, TypologyResults |-> <<>>]
    /\ evaluation = NoEvaluation
    /\ EngineAtRest
    /\ ApiAtRest

\* TypologyEngine.LoadTypologies(list)
LoadTypologiesCall(list) ==
    /\ typologies' = LoadTypologies(list)
    /\ decisionInput' = [decisionInput EXCEPT !.TypologyResults = <<>>]
    /\ UNCHANGED <<bandVars, extVars, processor, evaluation, engineVars, eaVars, eaHist,
                   repoRules, hPc, hTypologyResults, hSaved, response>>

\* TypologyEngine.EvaluateTypologies(ruleResults)
EvaluateTypologiesCall ==
    /\ \E order \in Orderings(DOMAIN typologies) :
           decisionInput' = [decisionInput EXCEPT !.TypologyResults =
               EvaluateTypologies(order, decisionInput.RuleResults)]
    /\ UNCHANGED <<bandVars, extVars, processor, evaluation, engineVars, eaVars, eaHist, apiVars>>

NextTypology ==
    \/ \E list \in TypologyInputLists : LoadTypologiesCall(list)
    \/ EvaluateTypologiesCall

SpecTypology == InitTypology /\ [][NextTypology]_vars

-----------------------------------------------------------------------------
(* The typology engine's lock, one EvaluateTypologies call step by step *)

\* e.mu.RLock() of EvaluateTypologies; with no typology loaded the call goes
\* straight to its return.
EvaluateTypologiesRLock ==
    /\ tyPc = "idle"
    /\ \E order \in Orderings(DOMAIN typologies) :
           tyEval' = [readers |-> tyReaders + 1, pc |-> "loop", iter |-> order,
                      results |-> <<>>]
    /\ UNCHANGED <<procVars, bandVars, engineVars, eaVars, eaHist, apiVars, mgmtVars,
                   workerVars, busVars, cacheVars>>

\* One pass of the range loop over e.typologies.
EvaluateTypologiesLoop ==
    /\ tyPc = "loop"
    /\ tyIter # <<>>
    /\ tyEval' = [tyEval EXCEPT
           !.results = Append(tyResults,
               evaluateTypology(typologies[Head(tyIter)],
                                ruleScoresLoop(decisionInput.RuleResults, 1, EmptyMap))),
           !.iter = Tail(tyIter)]
    /\ UNCHANGED <<procVars, bandVars, engineVars, eaVars, eaHist, apiVars, mgmtVars,
                   workerVars, busVars, cacheVars>>

\* The loop is over: the call returns results and the deferred e.mu.RUnlock()
\* runs.
EvaluateTypologiesReturn ==
    /\ tyPc = "loop"
    /\ tyIter = <<>>
    /\ decisionInput' = [decisionInput EXCEPT !.TypologyResults = tyResults]
    /\ tyEval' = [tyEval EXCEPT !.readers = tyReaders - 1, !.pc = "idle",
                                 !.results = <<>>]
    /\ UNCHANGED <<processor, evaluation, bandVars, engineVars, eaVars, eaHist, apiVars,
                   mgmtVars, workerVars, busVars, cacheVars>>

\* LoadTypologies from another goroutine: e.mu.Lock() waits until no read
\* lock is held.
LoadTypologiesLocked(list) ==
    /\ tyReaders = 0
    /\ LoadTypologiesCall(list)

NextLock ==
    \/ EvaluateTypologiesRLock
    \/ EvaluateTypologiesLoop
    \/ EvaluateTypologiesReturn
    \/ \E list \in TypologyInputLists : LoadTypologiesLocked(list)

SpecLock == InitTypology /\ [][NextLock]_vars

-----------------------------------------------------------------------------
(* matchBand on bounded inputs *)

Band(lower, upper, ref, reason) ==
    [LowerLimit |-> lower, UpperLimit |-> upper, SubRuleRef |-> ref,
     Reason |-> reason]

\* Bands with both limits, without an upper limit and without a lower limit;
\* each has its own reason.
InputBands ==
    {Band(RZero, <<1, 2>>, RuleOutcomePass, "low"),
     Band(<<1, 2>>, ROne, RuleOutcomeReview, "mid"),
     Band(ROne, NoLimit, RuleOutcomeFail, "high"),
     Band(NoLimit, <<1, 2>>, RuleOutcomePass, "below"),
     Band(<<1, 2>>, NoLimit, RuleOutcomeReview, "from mid")}

\* The longest band list handed to matchBand.
MaxBands == 3

\* Band lists in any declaration order, no band twice.
InputBandLists ==
    {bs \in SeqsUpTo(InputBands, MaxBands) :
        \A i, j \in DOMAIN bs : i # j => bs[i] # bs[j]}

\* Scores below every limit, on each limit, between limits and above them.
BandScores == {<<-1, 2>>, RZero, <<1, 4>>, <<1, 2>>, ROne, <<2, 1>>}

InitBands ==
    /\ ExtAtRest
    /\ processor = [AlertThreshold |-> DefaultAlertThreshold,
                    UseWeightedScoring |-> TRUE, Mode |-> ModeDetection]
    /\ decisionInput = [RuleResults |-> <<>>, TypologyResults |-> <<>>]
    /\ evaluation = NoEvaluation
    /\ EngineAtRest
    /\ repoRules = EmptyMap
    /\ typologies = EmptyMap
    /\ hPc = "idle"
    /\ hTypologyResults = <<>>
    /\ hSaved = NothingSaved
    /\ response = NoResponse
    /\ \E s1, s2 \in BandScores, bs \in InputBandLists :
           matchInput = [Scores |-> <<s1, s2>>, Bands |-> bs]
    /\ matchResult = <<>>

\* matchBand(score, bands), for the next score.
CallMatchBand ==
    /\ Len(matchResult) < Len(matchInput.Scores)
    /\ matchResult' = Append(matchResult,
           matchBand(matchInput.Scores[Len(matchResult) + 1], matchInput.Bands))
    /\ UNCHANGED <<matchInput, procVars, engineVars, eaVars, eaHist, apiVars,
                   extVars>>

NextBands == CallMatchBand

SpecBands == InitBands /\ [][NextBands]_vars

-----------------------------------------------------------------------------
(* internal/api: the handlers *)

\* A POST /evaluate request: the X-Tenant-ID header, whether the body is
\* JSON, and the fields of the decoded TransactionRequest.
TransactionRequest(tenant, parses, type, debtor, creditor, amount) ==
    [Tenant |-> tenant, Parses |-> parses, Type |-> type, DebtorID |-> debtor,
     CreditorID |-> creditor, Amount |-> amount]

\* POST /evaluate requests: two valid transactions and one without an amount.
EvaluateRequests ==
    {TransactionRequest("t1", TRUE, "transfer", "A", "A", <<20000, 1>>),
     TransactionRequest("t1", TRUE, "transfer", "A", "B", <<500, 1>>),
     TransactionRequest("t1", TRUE, "transfer", "A", "B", RZero)}

\* The requests the server turns down, one for each reason.
RejectedRequests ==
    {TransactionRequest("", TRUE, "transfer", "A", "B", <<500, 1>>),
     TransactionRequest("t1", FALSE, "", "", "", RZero),
     TransactionRequest("t1", TRUE, "", "A", "B", <<500, 1>>),
     TransactionRequest("t1", TRUE, "transfer", "", "B", <<500, 1>>),
     TransactionRequest("t1", TRUE, "transfer", "A", "", <<500, 1>>),
     TransactionRequest("t1", TRUE, "transfer", "A", "B", <<-500, 1>>)}

\* A check of the request that lets an amount of 0 or less through.
requestErrorAmountUnchecked(req) ==
    IF req.Tenant = "" THEN "X-Tenant-ID header is required"
    ELSE IF ~req.Parses THEN "invalid JSON request body"
    ELSE IF req.Type = "" THEN "type is required"
    ELSE IF req.DebtorID = "" \/ req.CreditorID = ""
    THEN "debtor.id and creditor.id are required"
    ELSE Nil

\* TenantMiddleware and the head of Evaluate: the error of the 400 response,
\* Nil for a request that is let through.
requestError(req) ==
    IF req.Tenant = "" THEN "X-Tenant-ID header is required"
    ELSE IF ~req.Parses THEN "invalid JSON request body"
    ELSE IF req.Type = "" THEN "type is required"
    ELSE IF req.DebtorID = "" \/ req.CreditorID = ""
    THEN "debtor.id and creditor.id are required"
    ELSE IF RLe(req.Amount, RZero) THEN "amount.value must be positive"
    ELSE Nil

\* The EvaluateInput Evaluate builds for the engine.
evalInput(req) ==
    [Type |-> req.Type, DebtorID |-> req.DebtorID, CreditorID |-> req.CreditorID,
     Amount |-> req.Amount, Currency |-> "USD", VelocityWindow |-> 3600,
     AdditionalData |-> <<>>]

\* POST /rules bodies: a new rule r2, the same disabled, one whose expression
\* does not compile, and one without an id.
CreateRuleRequests ==
    {SameAccount, SameAccountOff, Broken, [SameAccount EXCEPT !.ID = ""]}

Respond(handler, status, body) ==
    response' = [handler |-> handler, status |-> status, body |-> body]

\* Evaluate up to the call of EvaluateAll: the request is checked (400),
\* the transaction is saved (a failure is only logged) and EvaluateAll is
\* called.
EvaluateBegin(req, saveOk) ==
    /\ hPc = "idle"
    /\ IF requestError(req) # Nil
       THEN /\ Respond("Evaluate", 400, [error |-> requestError(req)])
            /\ hSaved' = NothingSaved
            /\ UNCHANGED <<hPc, hTypologyResults, eaVars, eaHist>>
       ELSE /\ hPc' = "rules"
            /\ hSaved' = [transaction |-> saveOk, evaluation |-> FALSE]
            /\ EvaluateAllCall(evalInput(req))
            /\ UNCHANGED <<hTypologyResults, response>>
    /\ UNCHANGED <<procVars, bandVars, extVars, engineVars, repoRules, typologies>>

\* EvaluateAll has returned; the handler asks the typology engine for its
\* count, which takes and releases the read lock.
EvaluateTypologyCount ==
    /\ hPc = "rules"
    /\ eaPc = "returned"
    /\ hPc' = IF TypologyCount > 0 THEN "typologies" ELSE "decide"
    /\ UNCHANGED <<procVars, bandVars, extVars, engineVars, eaVars, eaHist, repoRules, typologies,
                   hTypologyResults, hSaved, response>>

\* The count was positive: EvaluateTypologies, under the read lock again.
EvaluateTypologiesStep ==
    /\ hPc = "typologies"
    /\ \E order \in Orderings(DOMAIN typologies) :
           hTypologyResults' = EvaluateTypologies(order, eaResults)
    /\ hPc' = "decide"
    /\ UNCHANGED <<procVars, bandVars, extVars, engineVars, eaVars, eaHist, repoRules, typologies,
                   hSaved, response>>

\* Process, save the evaluation (a failure is only logged), respond 200.
EvaluateRespond(saveOk) ==
    /\ hPc = "decide"
    /\ LET eval == Process(processor, [RuleResults |-> eaResults,
                                       TypologyResults |-> hTypologyResults])
       IN  Respond("Evaluate", 200, [Status |-> eval.Status, Score |-> eval.Score])
    /\ hSaved' = [hSaved EXCEPT !.evaluation = saveOk]
    /\ hPc' = "idle"
    /\ hTypologyResults' = <<>>
    /\ EvaluateAllDone
    /\ UNCHANGED <<procVars, bandVars, extVars, engineVars, repoRules, typologies>>

\* GET /health: degraded only when the repository or the cache does not
\* answer the ping.
Health(pingOk) ==
    /\ Respond("Health", 200, [status |-> IF pingOk THEN "healthy" ELSE "degraded"])
    /\ UNCHANGED <<procVars, bandVars, extVars, engineVars, eaVars, eaHist, repoRules, typologies,
                   hPc, hTypologyResults, hSaved>>

\* GET /ready
Ready ==
    /\ Respond("Ready", 200, [ready |-> "true"])
    /\ UNCHANGED <<procVars, bandVars, extVars, engineVars, eaVars, eaHist, repoRules, typologies,
                   hPc, hTypologyResults, hSaved>>

\* GET /rules: the ids of the rules loaded in the engine.
ListRules ==
    /\ Respond("ListRules", 200, [rules |-> DOMAIN compiledRules])
    /\ UNCHANGED <<procVars, bandVars, extVars, engineVars, eaVars, eaHist, repoRules, typologies,
                   hPc, hTypologyResults, hSaved>>

\* POST /rules: 400 without id, name or expression; the rule is loaded into
\* the engine with LoadRule (400 when it does not compile); then it is saved
\* (500 when the repository fails, the rule staying loaded); 201.
CreateRule(req, saveOk) ==
    IF req.ID = "" \/ req.Expression = ""
    THEN /\ Respond("CreateRule", 400, [error |-> "id, name, and expression are required"])
         /\ UNCHANGED <<procVars, bandVars, extVars, engineVars, eaVars, eaHist, repoRules,
                        typologies, hPc, hTypologyResults, hSaved>>
    ELSE
        LET r == EngineLoadRule(compiledRules, req)
        IN  /\ compiledRules' = r.rules
            /\ engineRet' = [op |-> "LoadRule", err |-> r.err]
            /\ IF r.err = Nil THEN NoteChange("load", r.rules) ELSE UNCHANGED eaHist
            /\ IF r.err # Nil
               THEN /\ Respond("CreateRule", 400, [error |-> "invalid rule"])
                    /\ UNCHANGED repoRules
               ELSE IF ~saveOk
               THEN /\ Respond("CreateRule", 500, [error |-> "failed to save rule"])
                    /\ UNCHANGED repoRules
               ELSE /\ Respond("CreateRule", 201, [id |-> req.ID])
                    /\ repoRules' = Put(repoRules, req.ID, req)
            /\ UNCHANGED <<procVars, bandVars, extVars, loadPc, loading, maxWorkers, eaVars, typologies, hPc,
                           hTypologyResults, hSaved>>

\* repo.ListRuleConfigs: the enabled rows, in some order.
ListRuleConfigs ==
    LET ids == {id \in DOMAIN repoRules : repoRules[id].Enabled}
    IN  {[i \in DOMAIN order |-> repoRules[order[i]]] : order \in Orderings(ids)}

\* POST /rules/reload: 500 when the repository cannot list the configs or the
\* engine's ReloadRules fails; 200 with the count otherwise.
ReloadRulesHandler(listOk) ==
    IF ~listOk
    THEN /\ Respond("ReloadRules", 500, [error |-> "failed to load rules"])
         /\ UNCHANGED <<procVars, bandVars, extVars, engineVars, eaVars, eaHist, repoRules,
                        typologies, hPc, hTypologyResults, hSaved>>
    ELSE
        \E dbRules \in ListRuleConfigs :
            LET r == EngineReloadRules(compiledRules, dbRules)
            IN  /\ compiledRules' = r.rules
                /\ engineRet' = [op |-> "ReloadRules", err |-> r.err]
                /\ IF r.err = Nil
                   THEN /\ NoteChange("reload", r.rules)
                        /\ Respond("ReloadRules", 200, [count |-> Len(dbRules)])
                   ELSE /\ UNCHANGED eaHist
                        /\ Respond("ReloadRules", 500, [error |-> "failed to reload rules"])
                /\ UNCHANGED <<procVars, bandVars, extVars, loadPc, loading, maxWorkers, eaVars, repoRules,
                               typologies, hPc, hTypologyResults, hSaved>>

\* POST /typologies/reload: the typologies the repository lists replace the
\* typology engine's.
ReloadTypologiesHandler(dbTypologies) ==
    /\ typologies' = LoadTypologies(dbTypologies)
    /\ Respond("ReloadTypologies", 200, [count |-> Len(dbTypologies)])
    /\ UNCHANGED <<procVars, bandVars, extVars, engineVars, eaVars, eaHist, repoRules, hPc,
                   hTypologyResults, hSaved>>

\* The rules POST /evaluate is served with.
ServedRules == {HighValueV1, SameAccount, VelocityRatio, Flagged}

\* The server at rest, serving some rules of ServedRules (one per id at most)
\* and TypologyT1 or no typology.
InitEvaluate ==
    /\ ExtAtRest
    /\ processor \in [AlertThreshold : {DefaultAlertThreshold},
                      UseWeightedScoring : {TRUE},
                      Mode : {ModeDetection, ModeCompliance}]
    /\ decisionInput = [RuleResults |-> <<>>, TypologyResults |-> <<>>]
    /\ evaluation = NoEvaluation
    /\ \E configs \in SeqsUpTo(ServedRules, MaxConfigs) :
           /\ repoRules = LiveConfigs(EngineReloadRules(EmptyMap, configs).rules)
           /\ compiledRules = EngineReloadRules(EmptyMap, configs).rules
    /\ loadPc = "idle"
    /\ loading = <<>>
    /\ maxWorkers = MainMaxWorkers
    /\ engineRet = [op |-> "LoadRules", err |-> Nil]
    /\ EvaluateAllAtRest
    /\ typologies \in {LoadTypologies(list) : list \in {<<>>, <<TypologyT1>>}}
    /\ hPc = "idle"
    /\ hTypologyResults = <<>>
    /\ hSaved = NothingSaved
    /\ response = NoResponse
    /\ matchInput = NoMatchInput
    /\ matchResult = <<>>

\* POST /evaluate, one request at a time, whatever the repository and the
\* velocity getter answer.
NextEvaluate ==
    \/ \E req \in EvaluateRequests \cup RejectedRequests, saveOk \in BOOLEAN :
           EvaluateBegin(req, saveOk)
    \/ \E velocity \in Velocities :
           EvaluateAllSnapshot(velocity)
               /\ UNCHANGED <<procVars, bandVars, extVars, engineVars, apiVars>>
    \/ \E i \in 1..Cardinality(RuleIds) :
           EvaluateRule(i) /\ UNCHANGED <<procVars, bandVars, extVars, engineVars, apiVars>>
    \/ EvaluateAllReturn /\ UNCHANGED <<procVars, bandVars, extVars, engineVars, apiVars>>
    \/ EvaluateTypologyCount
    \/ EvaluateTypologiesStep
    \/ \E saveOk \in BOOLEAN : EvaluateRespond(saveOk)

SpecEvaluate == InitEvaluate /\ [][NextEvaluate]_vars

\* The server as main starts it: the processor carries the configured mode,
\* the engine holds the repository's one rule, no typology is loaded.
Init ==
    /\ ExtAtRest
    /\ processor \in [AlertThreshold : {DefaultAlertThreshold},
                      UseWeightedScoring : {TRUE},
                      Mode : {ModeDetection, ModeCompliance}]
    /\ decisionInput = [RuleResults |-> <<>>, TypologyResults |-> <<>>]
    /\ evaluation = NoEvaluation
    /\ repoRules = Put(EmptyMap, HighValueV1.ID, HighValueV1)
    /\ compiledRules = EngineLoadRule(EmptyMap, HighValueV1).rules
    /\ loadPc = "idle"
    /\ loading = <<>>
    /\ maxWorkers = MainMaxWorkers
    /\ engineRet = [op |-> "LoadRules", err |-> Nil]
    /\ EvaluateAllAtRest
    /\ typologies = EmptyMap
    /\ hPc = "idle"
    /\ hTypologyResults = <<>>
    /\ hSaved = NothingSaved
    /\ response = NoResponse
    /\ matchInput = NoMatchInput
    /\ matchResult = <<>>

\* The handlers of a server whose repository takes every transaction and
\* evaluation and whose velocity service has counted no transaction;
\* NextEvaluate is POST /evaluate with the failures of both.
Next ==
    \/ \E req \in EvaluateRequests : EvaluateBegin(req, TRUE)
    \/ EvaluateAllSnapshot(NoVelocity)
           /\ UNCHANGED <<procVars, bandVars, extVars, engineVars, apiVars>>
    \/ \E i \in 1..Cardinality(RuleIds) :
           EvaluateRule(i) /\ UNCHANGED <<procVars, bandVars, extVars, engineVars, apiVars>>
    \/ EvaluateAllReturn /\ UNCHANGED <<procVars, bandVars, extVars, engineVars, apiVars>>
    \/ EvaluateTypologyCount
    \/ EvaluateTypologiesStep
    \/ EvaluateRespond(TRUE)
    \/ \E pingOk \in BOOLEAN : Health(pingOk)
    \/ Ready
    \/ ListRules
    \/ \E req \in CreateRuleRequests, saveOk \in BOOLEAN : CreateRule(req, saveOk)
    \/ \E listOk \in BOOLEAN : ReloadRulesHandler(listOk)
    \/ \E dbTypologies \in TypologyLists : ReloadTypologiesHandler(dbTypologies)

Spec == Init /\ [][Next]_vars

-----------------------------------------------------------------------------
(* internal/api: the typology management handlers *)

\* The body of POST /typologies and PUT /typologies/{id}.
CreateTypologyRequest(id, name, rules, threshold, enabled) ==
    [ID |-> id, Name |-> name, Rules |-> rules, AlertThreshold |-> threshold,
     Enabled |-> enabled]

\* Bodies: TypologyT1, the same disabled, a typology over a rule the engine
\* may not hold, and one body for each thing a typology can lack.
TypologyRequests ==
    {CreateTypologyRequest("t1", "T1", TypologyT1.Rules, <<1, 2>>, TRUE),
     CreateTypologyRequest("t1", "T1", TypologyT1.Rules, <<1, 2>>, FALSE),
     CreateTypologyRequest("t2", "T2", <<[RuleID |-> "r2", Weight |-> ROne]>>, ROne, TRUE),
     CreateTypologyRequest("", "T1", TypologyT1.Rules, <<1, 2>>, TRUE),
     CreateTypologyRequest("t1", "", TypologyT1.Rules, <<1, 2>>, TRUE),
     CreateTypologyRequest("t1", "T1", <<>>, <<1, 2>>, TRUE),
     CreateTypologyRequest("t1", "T1", <<[RuleID |-> "", Weight |-> ROne]>>, <<1, 2>>, TRUE),
     CreateTypologyRequest("t1", "T1", <<[RuleID |-> "r1", Weight |-> <<5, 1>>]>>, <<1, 2>>, TRUE),
     CreateTypologyRequest("t1", "T1", <<[RuleID |-> "r1", Weight |-> ROne]>>, RZero, TRUE),
     CreateTypologyRequest("t1", "T1", <<[RuleID |-> "r1", Weight |-> ROne]>>, <<2, 1>>, TRUE)}

\* The ids PUT and DELETE /typologies/{id} are called with.
TypologyIds == {"t1", "t2"}

\* CreateTypology's loop over req.Rules, from index i: the error of the first
\* rule it turns down, Nil if there is none.
RECURSIVE createRulesLoop(_, _, _)
createRulesLoop(rules, ruleIDSet, i) ==
    IF i > Len(rules) THEN Nil
    ELSE IF rules[i].RuleID = "" THEN "rule_id cannot be empty"
    ELSE IF rules[i].RuleID \notin ruleIDSet THEN "rule_id does not exist in rule engine"
    ELSE IF RLt(rules[i].Weight, RZero) \/ RGt(rules[i].Weight, ROne)
    THEN "rule weight must be between 0 and 1"
    ELSE createRulesLoop(rules, ruleIDSet, i + 1)

\* The error of CreateTypology's 400 response, Nil for a body it accepts;
\* ruleIDSet holds the ids GetLoadedRules returned.
createTypologyError(req, ruleIDSet) ==
    IF req.ID = "" \/ req.Name = "" THEN "id and name are required"
    ELSE IF Len(req.Rules) = 0 THEN "at least one rule is required"
    ELSE IF createRulesLoop(req.Rules, ruleIDSet, 1) # Nil
    THEN createRulesLoop(req.Rules, ruleIDSet, 1)
    ELSE IF RLe(req.AlertThreshold, RZero) \/ RGt(req.AlertThreshold, ROne)
    THEN "alertThreshold must be between 0 (exclusive) and 1"
    ELSE Nil

\* UpdateTypology's loop over req.Rules, from index i.
RECURSIVE updateRulesLoop(_, _)
updateRulesLoop(rules, i) ==
    IF i > Len(rules) THEN Nil
    ELSE IF rules[i].RuleID = "" THEN "rule_id cannot be empty"
    ELSE IF RLt(rules[i].Weight, RZero) \/ RGt(rules[i].Weight, ROne)
    THEN "rule weight must be between 0 and 1"
    ELSE updateRulesLoop(rules, i + 1)

\* The error of UpdateTypology's 400 response, Nil for a call it accepts.
updateTypologyError(typologyID, req) ==
    IF typologyID = "" THEN "typology id is required"
    ELSE updateRulesLoop(req.Rules, 1)

\* The domain.Typology both handlers build (name, description and version
\* are not followed).
typologyOf(typologyID, req) ==
    [ID |-> typologyID, Rules |-> req.Rules, AlertThreshold |-> req.AlertThreshold,
     Enabled |-> req.Enabled]

\* SQLRepository.ListTypologies: the enabled rows, in some order.
ListTypologies(rows) ==
    LET ids == {id \in DOMAIN rows : rows[id].Enabled}
        order == CHOOSE o \in Orderings(ids) : TRUE
    IN  [i \in DOMAIN order |-> rows[order[i]]]

\* SQLRepository.DeleteTypology sets enabled = 0 in the row of the id.
SoftDelete(rows, typologyID) ==
    [rows EXCEPT ![typologyID].Enabled = FALSE]

\* POST /typologies
CreateTypology(req, saveOk) ==
    /\ LET err == createTypologyError(req, DOMAIN compiledRules)
       IN  IF err # Nil
           THEN /\ Respond("CreateTypology", 400, [error |-> err])
                /\ UNCHANGED repoTypologies
           ELSE IF ~saveOk
           THEN /\ Respond("CreateTypology", 500, [error |-> "failed to save typology"])
                /\ UNCHANGED repoTypologies
           ELSE /\ repoTypologies' = Put(repoTypologies, req.ID, typologyOf(req.ID, req))
                /\ Respond("CreateTypology", 201, [typology |-> typologyOf(req.ID, req)])
    /\ UNCHANGED <<procVars, bandVars, engineVars, eaVars, eaHist, repoRules, typologies,
                   hPc, hTypologyResults, hSaved, lockVars, workerVars, busVars,
                   cacheVars>>

\* PUT /typologies/{id}
UpdateTypology(typologyID, req, saveOk) ==
    /\ LET err == updateTypologyError(typologyID, req)
       IN  IF err # Nil
           THEN /\ Respond("UpdateTypology", 400, [error |-> err])
                /\ UNCHANGED repoTypologies
           ELSE IF ~saveOk
           THEN /\ Respond("UpdateTypology", 500, [error |-> "failed to update typology"])
                /\ UNCHANGED repoTypologies
           ELSE /\ repoTypologies' =
                       Put(repoTypologies, typologyID, typologyOf(typologyID, req))
                /\ Respond("UpdateTypology", 200,
                           [typology |-> typologyOf(typologyID, req)])
    /\ UNCHANGED <<procVars, bandVars, engineVars, eaVars, eaHist, repoRules, typologies,
                   hPc, hTypologyResults, hSaved, lockVars, workerVars, busVars,
                   cacheVars>>

\* DELETE /typologies/{id}: the row is disabled (404 when the repository
\* fails or has no such row), then the typology engine is reloaded with what
\* the repository lists; when the listing fails the error is logged and the
\* response is the same 200.
DeleteTypology(typologyID, deleteOk, listOk) ==
    /\ IF typologyID = ""
       THEN /\ Respond("DeleteTypology", 400, [error |-> "typology id is required"])
            /\ UNCHANGED <<repoTypologies, typologies>>
       ELSE IF ~deleteOk \/ typologyID \notin DOMAIN repoTypologies
       THEN /\ Respond("DeleteTypology", 404, [error |-> "typology not found"])
            /\ UNCHANGED <<repoTypologies, typologies>>
       ELSE /\ repoTypologies' = SoftDelete(repoTypologies, typologyID)
            /\ IF listOk
               THEN typologies' = LoadTypologies(ListTypologies(repoTypologies'))
               ELSE UNCHANGED typologies
            /\ Respond("DeleteTypology", 200,
                       [message |-> "Typology deleted and engine reloaded."])
    /\ UNCHANGED <<procVars, bandVars, engineVars, eaVars, eaHist, repoRules,
                   hPc, hTypologyResults, hSaved, lockVars, workerVars, busVars,
                   cacheVars>>

\* The server with r1, or r1 and r2, in the rule engine, no typologies row
\* and no typology loaded.
InitManage ==
    /\ processor = [AlertThreshold |-> DefaultAlertThreshold,
                    UseWeightedScoring |-> TRUE, Mode |-> ModeDetection]
    /\ decisionInput = [RuleResults |-> <<>>, TypologyResults |-> <<>>]
    /\ evaluation = NoEvaluation
    /\ \E configs \in {<<HighValueV1>>, <<HighValueV1, SameAccount>>} :
           compiledRules = EngineReloadRules(EmptyMap, configs).rules
    /\ loadPc = "idle"
    /\ loading = <<>>
    /\ maxWorkers = MainMaxWorkers
    /\ engineRet = [op |-> "LoadRules", err |-> Nil]
    /\ EvaluateAllAtRest
    /\ ApiAtRest
    /\ ExtAtRest

\* The typology management surface, whatever the repository answers.
NextManage ==
    \/ \E req \in TypologyRequests, saveOk \in BOOLEAN : CreateTypology(req, saveOk)
    \/ \E typologyID \in TypologyIds, req \in TypologyRequests, saveOk \in BOOLEAN :
           UpdateTypology(typologyID, req, saveOk)
    \/ \E typologyID \in TypologyIds, deleteOk \in BOOLEAN, listOk \in BOOLEAN :
           DeleteTypology(typologyID, deleteOk, listOk)
    \/ ReloadTypologiesHandler(ListTypologies(repoTypologies))

SpecManage == InitManage /\ [][NextManage]_vars

-----------------------------------------------------------------------------
(* internal/bus: the channel bus *)

\* The most subscriptions, the most Publish calls and the most Request calls
\* followed.
MaxSubscriptions == 3
MaxMessages == 3
MaxRequests == 1

TopicTransactionIngested == "osprey.transaction.ingested"
TopicDecision == "osprey.decision"
TopicAlert == "osprey.alert"

Topics == {TopicTransactionIngested, TopicDecision}

\* The bufferSize NewChannelBus is called with.
BufferSizes == {0, 1, 2}

NewChannelBusSize(n) ==
    IF n <= 0 THEN DefaultBufferSize ELSE n

\* The key of b.subscriptions: the tenant, a colon, the topic.
makeKey(tenantID, topic) ==
    tenantID \o ":" \o topic

\* The channelSubscription Subscribe builds: its handler goroutine runs, its
\* context is live, its channel is open and empty. handled is the history of
\* the messages its handler was invoked with, unsubAt the number of messages
\* published when Unsubscribe returned.
channelSubscription(tenantID, topic) ==
    [tenantID |-> tenantID, topic |-> topic, msgCh |-> <<>>, done |-> FALSE,
     chClosed |-> FALSE, inMap |-> TRUE, running |-> TRUE, handled |-> <<>>,
     unsubscribed |-> FALSE, unsubAt |-> 0]

\* b.subscriptions[key]: the subscriptions the map holds under the key, in
\* the order of their Subscribe calls.
RECURSIVE subsOfKey(_, _, _)
subsOfKey(subs, key, i) ==
    IF i > Len(subs) THEN <<>>
    ELSE IF subs[i].inMap /\ makeKey(subs[i].tenantID, subs[i].topic) = key
         THEN <<i>> \o subsOfKey(subs, key, i + 1)
         ELSE subsOfKey(subs, key, i + 1)

\* A send loop that gives up at the first full channel.
restAfterSendStopWhenFull(subs, sent) ==
    IF sent THEN Tail(subs) ELSE <<>>

\* Publish's loop goes on with the next subscription, whether the select
\* sent the message or took its default case.
restAfterSend(subs, sent) ==
    Tail(subs)

\* Subscribe(ctx, tenantID, topic, handler) as it changes the bus b: the
\* subscription is appended to the map and its handleMessages goroutine
\* started; without a tenant or on a closed bus nothing is registered.
subscribe(b, tenantID, topic) ==
    IF tenantID = "" \/ b.closed
    THEN b
    ELSE [b EXCEPT !.subscriptions = Append(@, channelSubscription(tenantID, topic))]

Subscribe(tenantID, topic) ==
    /\ Len(subscriptions) < MaxSubscriptions
    /\ bus' = subscribe(bus, tenantID, topic)
    /\ UNCHANGED <<procVars, bandVars, engineVars, eaVars, eaHist, apiVars, mgmtVars,
                   lockVars, workerVars, cacheVars>>

\* Publish up to its loop, as it changes the bus b: without a tenant, or on
\* a closed bus, it returns an error; otherwise it creates the message and
\* reads the key's subscriptions under the read lock.
publishBegin(b, tenantID, topic) ==
    IF tenantID = ""
    THEN [b EXCEPT !.pubRet = "tenantID is required", !.pubLog = <<>>]
    ELSE IF b.closed
    THEN [b EXCEPT !.pubRet = "bus is closed", !.pubLog = <<>>]
    ELSE [b EXCEPT
             !.pubPc = "send",
             !.pubMsg = b.pubMsg + 1,
             !.messages = Append(@, [TenantID |-> tenantID, Topic |-> topic]),
             !.pubSubs = subsOfKey(b.subscriptions, makeKey(tenantID, topic), 1),
             !.pubLog = <<>>]

\* Publish(ctx, tenantID, topic, payload) is called.
PublishBegin(tenantID, topic) ==
    /\ pubPc = "idle"
    /\ pubMsg < MaxMessages
    /\ bus' = publishBegin(bus, tenantID, topic)
    /\ UNCHANGED <<procVars, bandVars, engineVars, eaVars, eaHist, apiVars, mgmtVars,
                   lockVars, workerVars, cacheVars>>

\* One pass of Publish's loop: the select sends the message when msgCh has
\* room and takes its default case when it is full; a send on a channel
\* that Close has closed panics.
publishSend(b) ==
    LET i == Head(b.pubSubs)
        sent == Len(b.subscriptions[i].msgCh) < b.bufferSize
    IN  IF b.subscriptions[i].chClosed
        THEN [b EXCEPT !.pubPc = "panic"]
        ELSE [b EXCEPT
                 !.subscriptions =
                     IF sent
                     THEN [b.subscriptions EXCEPT ![i].msgCh = Append(@, b.pubMsg)]
                     ELSE b.subscriptions,
                 !.pubLog = Append(b.pubLog, [sub |-> i, sent |-> sent]),
                 !.pubSubs = restAfterSend(b.pubSubs, sent)]

PublishSend ==
    /\ pubPc = "send"
    /\ pubSubs # <<>>
    /\ bus' = publishSend(bus)
    /\ UNCHANGED <<procVars, bandVars, engineVars, eaVars, eaHist, apiVars, mgmtVars,
                   lockVars, workerVars, cacheVars>>

\* The loop is over: Publish returns nil.
publishReturn(b) ==
    [b EXCEPT !.pubPc = "idle", !.pubRet = Nil]

PublishReturn ==
    /\ pubPc = "send"
    /\ pubSubs = <<>>
    /\ bus' = publishReturn(bus)
    /\ UNCHANGED <<procVars, bandVars, engineVars, eaVars, eaHist, apiVars, mgmtVars,
                   lockVars, workerVars, cacheVars>>

\* Publish's loop to its end.
RECURSIVE publishLoop(_)
publishLoop(b) ==
    IF b.pubPc # "send" THEN b
    ELSE IF b.pubSubs = <<>> THEN publishReturn(b)
    ELSE publishLoop(publishSend(b))

\* A whole Publish call that nothing interleaves with.
publish(b, tenantID, topic) ==
    publishLoop(publishBegin(b, tenantID, topic))

\* handleMessages of subscription i takes a message from msgCh and calls the
\* handler.
HandleMessages(i) ==
    /\ i \in DOMAIN subscriptions
    /\ subscriptions[i].running
    /\ subscriptions[i].msgCh # <<>>
    /\ bus' = [bus EXCEPT !.subscriptions[i].handled = Append(@, Head(subscriptions[i].msgCh)),
                          !.subscriptions[i].msgCh = Tail(@)]
    /\ UNCHANGED <<procVars, bandVars, engineVars, eaVars, eaHist, apiVars, mgmtVars,
                   lockVars, workerVars, cacheVars>>

\* handleMessages of subscription i takes the ctx.Done() case of its select
\* and returns. The select chooses among its ready cases, so HandleMessages
\* stays possible while msgCh holds a message.
HandleDone(i) ==
    /\ i \in DOMAIN subscriptions
    /\ subscriptions[i].running
    /\ subscriptions[i].done
    /\ bus' = [bus EXCEPT !.subscriptions[i].running = FALSE]
    /\ UNCHANGED <<procVars, bandVars, engineVars, eaVars, eaHist, apiVars, mgmtVars,
                   lockVars, workerVars, cacheVars>>

\* What Unsubscribe does to the subscription: it cancels its context.
unsubscribe(sub, published) ==
    [sub EXCEPT !.done = TRUE, !.unsubscribed = TRUE, !.unsubAt = published]

\* channelSubscription.Unsubscribe
Unsubscribe(i) ==
    /\ i \in DOMAIN subscriptions
    /\ ~subscriptions[i].unsubscribed
    /\ bus' = [bus EXCEPT !.subscriptions[i] = unsubscribe(@, pubMsg)]
    /\ UNCHANGED <<procVars, bandVars, engineVars, eaVars, eaHist, apiVars, mgmtVars,
                   lockVars, workerVars, cacheVars>>

\* Close under the write lock: every subscription of the map is cancelled,
\* its channel closed, and the map replaced by an empty one.
Close ==
    /\ ~closed
    /\ bus' = [bus EXCEPT
           !.closed = TRUE,
           !.subscriptions =
               [i \in DOMAIN subscriptions |->
                   IF subscriptions[i].inMap
                   THEN [subscriptions[i] EXCEPT !.done = TRUE, !.chClosed = TRUE,
                                                 !.inMap = FALSE]
                   ELSE subscriptions[i]]]
    /\ UNCHANGED <<procVars, bandVars, engineVars, eaVars, eaHist, apiVars, mgmtVars,
                   lockVars, workerVars, cacheVars>>

\* Request up to its Publish: it subscribes to a reply topic of its own.
\* Without a tenant, or on a closed bus, it returns the error.
RequestBegin(tenantID, topic) ==
    /\ reqPc = "idle"
    /\ reqCount < MaxRequests
    /\ Len(subscriptions) < MaxSubscriptions
    /\ IF tenantID = "" \/ closed
       THEN bus' = [bus EXCEPT !.reqCount = reqCount + 1]
       ELSE bus' = [bus EXCEPT
                !.reqCount = reqCount + 1,
                !.reqPc = "publish",
                !.reqArgs = [tenantID |-> tenantID, topic |-> topic],
                !.reqSub = Len(subscriptions) + 1,
                !.subscriptions = Append(@,
                    channelSubscription(tenantID,
                        topic \o ".reply." \o ToString(reqCount + 1)))]
    /\ UNCHANGED <<procVars, bandVars, engineVars, eaVars, eaHist, apiVars, mgmtVars,
                   lockVars, workerVars, cacheVars>>

\* Request publishes the request.
RequestPublish ==
    /\ reqPc = "publish"
    /\ pubPc = "idle"
    /\ pubMsg < MaxMessages
    /\ bus' = [publishBegin(bus, reqArgs.tenantID, reqArgs.topic) EXCEPT !.reqPc = "wait"]
    /\ UNCHANGED <<procVars, bandVars, engineVars, eaVars, eaHist, apiVars, mgmtVars,
                   lockVars, workerVars, cacheVars>>

\* Request returns, with Publish's error, the reply, ctx.Err() or the
\* timeout: its deferred Unsubscribe runs.
RequestReturn ==
    /\ reqPc = "wait"
    /\ pubPc = "idle"
    /\ bus' = [bus EXCEPT !.reqPc = "idle",
                          !.subscriptions[reqSub] = unsubscribe(@, pubMsg)]
    /\ UNCHANGED <<procVars, bandVars, engineVars, eaVars, eaHist, apiVars, mgmtVars,
                   lockVars, workerVars, cacheVars>>

\* A bus NewChannelBus has just built; it stays open.
InitBus ==
    /\ processor = [AlertThreshold |-> DefaultAlertThreshold,
                    UseWeightedScoring |-> TRUE, Mode |-> ModeDetection]
    /\ decisionInput = [RuleResults |-> <<>>, TypologyResults |-> <<>>]
    /\ evaluation = NoEvaluation
    /\ EngineAtRest
    /\ ApiAtRest
    /\ MgmtAtRest
    /\ LockAtRest
    /\ WorkerAtRest
    /\ CacheAtRest
    /\ \E n \in BufferSizes : bus = NewChannelBus(NewChannelBusSize(n))

NextBus ==
    \/ \E topic \in Topics : Subscribe("t1", topic)
    \/ \E tenantID \in {"", "t1"}, topic \in Topics : PublishBegin(tenantID, topic)
    \/ PublishSend
    \/ PublishReturn
    \/ \E i \in 1..MaxSubscriptions : HandleMessages(i)

SpecBus == InitBus /\ [][NextBus]_vars

\* The most subscriptions followed where subscriptions differ in tenant or
\* end.
MaxChannelSubscriptions == 2

\* Tenants and topics whose names may hold a colon.
ColonTenants == {"a", "a:b"}
ColonTopics == {"c", "b:c"}

\* Subscribers and publishers of several tenants on one open bus.
NextTenants ==
    \/ \E tenantID \in ColonTenants, topic \in ColonTopics :
           Len(subscriptions) < MaxChannelSubscriptions /\ Subscribe(tenantID, topic)
    \/ \E tenantID \in ColonTenants, topic \in ColonTopics : PublishBegin(tenantID, topic)
    \/ PublishSend
    \/ PublishReturn
    \/ \E i \in 1..MaxSubscriptions : HandleMessages(i)

SpecTenants == InitBus /\ [][NextTenants]_vars

\* One tenant's subscribers, publishers and requesters on a bus that
\* subscriptions leave and that Close closes.
NextChannel ==
    \/ Len(subscriptions) < MaxChannelSubscriptions /\ Subscribe("t1", TopicDecision)
    \/ PublishBegin("t1", TopicDecision)
    \/ PublishSend
    \/ PublishReturn
    \/ \E i \in 1..MaxSubscriptions : HandleMessages(i)
    \/ \E i \in 1..MaxSubscriptions : HandleDone(i)
    \/ \E i \in 1..MaxSubscriptions : Unsubscribe(i)
    \/ Close
    \/ Len(subscriptions) < MaxChannelSubscriptions /\ RequestBegin("t1", TopicDecision)
    \/ RequestPublish
    \/ RequestReturn

\* A bus NewChannelBus has just built with room for one message per
\* subscription.
InitChannel ==
    /\ processor = [AlertThreshold |-> DefaultAlertThreshold,
                    UseWeightedScoring |-> TRUE, Mode |-> ModeDetection]
    /\ decisionInput = [RuleResults |-> <<>>, TypologyResults |-> <<>>]
    /\ evaluation = NoEvaluation
    /\ EngineAtRest
    /\ ApiAtRest
    /\ MgmtAtRest
    /\ LockAtRest
    /\ WorkerAtRest
    /\ CacheAtRest
    /\ bus = NewChannelBus(NewChannelBusSize(1))

SpecChannel == InitChannel /\ [][NextChannel]_vars

-----------------------------------------------------------------------------
(* internal/worker: the asynchronous path *)

\* The message the bus hands to the worker for a transaction: its tenant,
\* whether the payload is JSON, and the fields of the decoded
\* TransactionMessage.
TransactionMessage(tenant, parses, type, debtor, creditor, amount, window) ==
    [TenantID |-> tenant, Parses |-> parses, Type |-> type, DebtorID |-> debtor,
     CreditorID |-> creditor, Amount |-> amount, VelocityWindow |-> window]

\* The same transaction as the body of a POST /evaluate.
requestOf(msg) ==
    TransactionRequest(msg.TenantID, msg.Parses, msg.Type, msg.DebtorID,
                       msg.CreditorID, msg.Amount)

\* Messages: the transactions of EvaluateRequests and a payload that is not
\* JSON; none carries a velocity window.
TransactionMessages ==
    {TransactionMessage(req.Tenant, req.Parses, req.Type, req.DebtorID,
                        req.CreditorID, req.Amount, 0) : req \in EvaluateRequests}
      \cup {TransactionMessage("t1", FALSE, "", "", "", RZero, 0)}

\* The EvaluateInput processTransaction builds for the engine.
workerEvalInput(msg) ==
    [Type |-> msg.Type, DebtorID |-> msg.DebtorID, CreditorID |-> msg.CreditorID,
     Amount |-> msg.Amount, Currency |-> "USD",
     VelocityWindow |-> IF msg.VelocityWindow = 0 THEN 3600 ELSE msg.VelocityWindow,
     AdditionalData |-> <<>>]

\* processTransaction up to the call of EvaluateAll: a payload that is not
\* JSON ends the call with the error; a tenantId in the payload replaces the
\* tenant the call was made with.
ProcessTransactionBegin ==
    /\ wPc = "idle"
    /\ hPc = "idle"
    /\ wMsg # NoMessage
    /\ IF ~wMsg.Parses
       THEN /\ worker' = [worker EXCEPT !.pc = "failed"]
            /\ UNCHANGED <<eaVars, eaHist>>
       ELSE /\ worker' = [worker EXCEPT
                   !.pc = "rules",
                   !.tenantID = IF wMsg.TenantID # "" THEN wMsg.TenantID ELSE @]
            /\ EvaluateAllCall(workerEvalInput(wMsg))
    /\ UNCHANGED <<procVars, bandVars, engineVars, apiVars, mgmtVars, lockVars, busVars,
                   cacheVars>>

\* EvaluateAll has returned; the worker asks the typology engine for its
\* count.
ProcessTransactionTypologyCount ==
    /\ wPc = "rules"
    /\ eaPc = "returned"
    /\ worker' = [worker EXCEPT
                      !.pc = IF TypologyCount > 0 THEN "typologies" ELSE "decide"]
    /\ UNCHANGED <<procVars, bandVars, engineVars, eaVars, eaHist, apiVars, mgmtVars,
                   lockVars, busVars, cacheVars>>

\* The count was positive: EvaluateTypologies.
ProcessTransactionTypologies ==
    /\ wPc = "typologies"
    /\ \E order \in Orderings(DOMAIN typologies) :
           worker' = [worker EXCEPT
                         !.typologyResults = EvaluateTypologies(order, eaResults),
                         !.pc = "decide"]
    /\ UNCHANGED <<procVars, bandVars, engineVars, eaVars, eaHist, apiVars, mgmtVars,
                   lockVars, busVars, cacheVars>>

\* An alert test that takes every evaluation for an alert.
ShouldAlertAlways(eval) ==
    TRUE

\* tadp.ShouldAlert
ShouldAlert(eval) ==
    eval.Status = StatusAlert

\* Process, save the evaluation (a failure is only logged), publish it to
\* the decision topic and, for an alert, to the alert topic.
ProcessTransactionDecide(saveOk) ==
    /\ wPc = "decide"
    /\ LET eval == Process(processor, [RuleResults |-> eaResults,
                                       TypologyResults |-> wTypologyResults])
           decided == publish(bus, wTenantID, TopicDecision)
       IN  /\ worker' = [worker EXCEPT
                         !.evaluation = [Status |-> eval.Status, Score |-> eval.Score,
                                         Alert |-> eval.Status = StatusAlert],
                         !.saved = Append(@, [TenantID |-> wTenantID, ok |-> saveOk]),
                         !.pc = "done",
                         !.typologyResults = <<>>]
           /\ bus' = IF ShouldAlert(eval)
                     THEN publish(decided, wTenantID, TopicAlert)
                     ELSE decided
    /\ EvaluateAllDone
    /\ UNCHANGED <<procVars, bandVars, engineVars, apiVars, mgmtVars, lockVars,
                   cacheVars>>

\* The server and the worker over the same engines, r1 or r1 and r2 loaded,
\* TypologyT1 or no typology, and one transaction that reaches both: as a
\* message on the worker's subscription and as a POST /evaluate.
InitAsync ==
    /\ processor \in [AlertThreshold : {DefaultAlertThreshold},
                      UseWeightedScoring : {TRUE},
                      Mode : {ModeDetection, ModeCompliance}]
    /\ decisionInput = [RuleResults |-> <<>>, TypologyResults |-> <<>>]
    /\ evaluation = NoEvaluation
    /\ \E configs \in {<<HighValueV1>>, <<HighValueV1, SameAccount>>} :
           /\ repoRules = LiveConfigs(EngineReloadRules(EmptyMap, configs).rules)
           /\ compiledRules = EngineReloadRules(EmptyMap, configs).rules
    /\ loadPc = "idle"
    /\ loading = <<>>
    /\ maxWorkers = MainMaxWorkers
    /\ engineRet = [op |-> "LoadRules", err |-> Nil]
    /\ EvaluateAllAtRest
    /\ typologies \in {LoadTypologies(list) : list \in {<<>>, <<TypologyT1>>}}
    /\ hPc = "idle"
    /\ hTypologyResults = <<>>
    /\ hSaved = NothingSaved
    /\ response = NoResponse
    /\ matchInput = NoMatchInput
    /\ matchResult = <<>>
    /\ MgmtAtRest
    /\ LockAtRest
    /\ BusAtRest
    /\ CacheAtRest
    /\ \E msg \in TransactionMessages :
           worker = [pc |-> "idle", msg |-> msg, subscription |-> "t1",
                     tenantID |-> "t1", typologyResults |-> <<>>,
                     evaluation |-> NoEvaluation, saved |-> <<>>]

\* The transaction goes through POST /evaluate and through the worker, one
\* after the other in either order.
NextAsync ==
    \/ \E saveOk \in BOOLEAN :
           /\ wPc \in {"idle", "done", "failed"}
           /\ response.handler # "Evaluate"
           /\ EvaluateBegin(requestOf(wMsg), saveOk)
    \/ EvaluateAllSnapshot(NoVelocity)
           /\ UNCHANGED <<procVars, bandVars, extVars, engineVars, apiVars>>
    \/ \E i \in 1..Cardinality(RuleIds) :
           EvaluateRule(i) /\ UNCHANGED <<procVars, bandVars, extVars, engineVars, apiVars>>
    \/ EvaluateAllReturn /\ UNCHANGED <<procVars, bandVars, extVars, engineVars, apiVars>>
    \/ EvaluateTypologyCount
    \/ EvaluateTypologiesStep
    \/ \E saveOk \in BOOLEAN : EvaluateRespond(saveOk)
    \/ ProcessTransactionBegin
    \/ ProcessTransactionTypologyCount
    \/ ProcessTransactionTypologies
    \/ \E saveOk \in BOOLEAN : ProcessTransactionDecide(saveOk)

SpecAsync == InitAsync /\ [][NextAsync]_vars

\* The tenants of the payloads: none, the subscription's own, another one.
PayloadTenants == {"", "t1", "t2"}

\* A transaction below, and one above, the high-value limit, each with the
\* tenantId of PayloadTenants, and a payload that is not JSON.
TenantMessages ==
    {TransactionMessage(tenant, TRUE, "transfer", "A", creditor, <<20000, 1>>, 0) :
         tenant \in PayloadTenants, creditor \in {"A", "B"}}
      \cup {TransactionMessage(tenant, TRUE, "transfer", "A", "B", <<500, 1>>, 0) :
               tenant \in PayloadTenants}
      \cup {TransactionMessage("t1", FALSE, "", "", "", RZero, 0)}

\* The bus of the worker's tenant t1 and of tenant t2, each with a subscriber
\* of the decision topic and one of the alert topic.
WorkerBus ==
    subscribe(subscribe(subscribe(subscribe(NewChannelBus(DefaultBufferSize),
        "t1", TopicDecision), "t1", TopicAlert), "t2", TopicDecision), "t2", TopicAlert)

\* The worker of tenant t1 has been handed one message of its subscription.
InitConsume ==
    /\ processor \in [AlertThreshold : {DefaultAlertThreshold},
                      UseWeightedScoring : {TRUE},
                      Mode : {ModeDetection, ModeCompliance}]
    /\ decisionInput = [RuleResults |-> <<>>, TypologyResults |-> <<>>]
    /\ evaluation = NoEvaluation
    /\ \E configs \in {<<HighValueV1>>, <<HighValueV1, SameAccount>>} :
           /\ repoRules = LiveConfigs(EngineReloadRules(EmptyMap, configs).rules)
           /\ compiledRules = EngineReloadRules(EmptyMap, configs).rules
    /\ loadPc = "idle"
    /\ loading = <<>>
    /\ maxWorkers = MainMaxWorkers
    /\ engineRet = [op |-> "LoadRules", err |-> Nil]
    /\ EvaluateAllAtRest
    /\ typologies \in {LoadTypologies(list) : list \in {<<>>, <<TypologyT1>>}}
    /\ hPc = "idle"
    /\ hTypologyResults = <<>>
    /\ hSaved = NothingSaved
    /\ response = NoResponse
    /\ matchInput = NoMatchInput
    /\ matchResult = <<>>
    /\ MgmtAtRest
    /\ LockAtRest
    /\ CacheAtRest
    /\ bus = WorkerBus
    /\ \E msg \in TenantMessages :
           worker = [pc |-> "idle", msg |-> msg, subscription |-> "t1",
                     tenantID |-> "t1", typologyResults |-> <<>>,
                     evaluation |-> NoEvaluation, saved |-> <<>>]

\* processTransaction for the message, and the handlers of the subscribers.
NextConsume ==
    \/ ProcessTransactionBegin
    \/ EvaluateAllSnapshot(NoVelocity)
           /\ UNCHANGED <<procVars, bandVars, extVars, engineVars, apiVars>>
    \/ \E i \in 1..Cardinality(RuleIds) :
           EvaluateRule(i) /\ UNCHANGED <<procVars, bandVars, extVars, engineVars, apiVars>>
    \/ EvaluateAllReturn /\ UNCHANGED <<procVars, bandVars, extVars, engineVars, apiVars>>
    \/ ProcessTransactionTypologyCount
    \/ ProcessTransactionTypologies
    \/ \E saveOk \in BOOLEAN : ProcessTransactionDecide(saveOk)
    \/ \E i \in 1..4 : HandleMessages(i)

SpecConsume == InitConsume /\ [][NextConsume]_vars

-----------------------------------------------------------------------------
(* internal/cache: the two-phase cache *)

\* The latest time followed, in minutes.
MaxClock == 2

CacheKeys == {"k1", "k2"}

\* The TTLs Set is called with, in minutes.
RequestedTTLs == {1, 3}

\* cfg.LocalTTL and cfg.LocalMaxSize.
LocalTTLs == {0, 2}
LocalMaxSizes == {0, 1}

NewLRUCacheSize(n) ==
    IF n <= 0 THEN DefaultLocalMaxSize ELSE n

NewTwoPhaseCacheTTL(localTTL) ==
    IF localTTL = 0 THEN DefaultLocalTTL ELSE localTTL

\* The places of the key in the LRU order: one at most.
lruFind(order, key) ==
    {i \in DOMAIN order : order[i].key = key}

lruWithout(order, key) ==
    SelectSeq(order, LAMBDA e : e.key # key)

\* LRUCache.Set: an entry of the key is updated and moved to the front, a new
\* entry is pushed to the front and the oldest entries are removed while the
\* cache is over its capacity.
lruSet(lru, key, value, expiresAt) ==
    LET entry == [key |-> key, value |-> value, expiresAt |-> expiresAt]
        order == <<entry>> \o lruWithout(lru.order, key)
    IN  [lru EXCEPT !.order =
            IF Len(order) > lru.maxSize THEN SubSeq(order, 1, lru.maxSize) ELSE order]

\* A Get that leaves a live entry where it is.
lruGetNoMove(lru, key, now) ==
    IF lruFind(lru.order, key) = {} THEN [lru |-> lru, val |-> Nil]
    ELSE LET entry == lru.order[CHOOSE i \in lruFind(lru.order, key) : TRUE]
         IN  IF now > entry.expiresAt
             THEN [lru |-> [lru EXCEPT !.order = lruWithout(lru.order, key)], val |-> Nil]
             ELSE [lru |-> lru, val |-> entry.value]

\* LRUCache.Get: the cache after the call and the value (Nil for a miss); an
\* expired entry is removed, a live one moves to the front.
lruGet(lru, key, now) ==
    IF lruFind(lru.order, key) = {} THEN [lru |-> lru, val |-> Nil]
    ELSE LET entry == lru.order[CHOOSE i \in lruFind(lru.order, key) : TRUE]
         IN  IF now > entry.expiresAt
             THEN [lru |-> [lru EXCEPT !.order = lruWithout(lru.order, key)], val |-> Nil]
             ELSE [lru |-> [lru EXCEPT !.order = <<entry>> \o lruWithout(lru.order, key)],
                   val |-> entry.value]

\* RedisCache.Get: Nil for a key that is not there or has expired.
redisGet(keys, key, now) ==
    IF key \in DOMAIN keys /\ now < keys[key].expiresAt THEN keys[key].value ELSE Nil

\* The TTL Set writes the L1 entry with.
setL1TTL(ttl, configured) ==
    IF ttl < configured THEN ttl ELSE configured

\* TwoPhaseCache.Set as it changes the cache c: L1 with the shorter TTL,
\* then L2 with the full TTL.
cacheSet(c, key, value, ttl, remoteOk) ==
    [c EXCEPT
        !.local = lruSet(c.local, key, value, c.clock + setL1TTL(ttl, c.l1TTL)),
        !.hist = Put(c.hist, key,
                     [requested |-> ttl, placed |-> setL1TTL(ttl, c.l1TTL)]),
        !.remote = IF remoteOk
                   THEN Put(c.remote, key,
                            [value |-> value, expiresAt |-> c.clock + ttl, ttl |-> ttl])
                   ELSE c.remote]

CacheSet(key, value, ttl, remoteOk) ==
    /\ cache' = cacheSet(cache, key, value, ttl, remoteOk)
    /\ UNCHANGED <<procVars, bandVars, engineVars, eaVars, eaHist, apiVars, mgmtVars,
                   lockVars, workerVars, busVars>>

\* TwoPhaseCache.Get: L1, then L2; a value found in L2 is written to L1 with
\* c.l1TTL.
CacheGet(key, remoteOk) ==
    /\ LET l1 == lruGet(local, key, clock)
           val == IF remoteOk THEN redisGet(remote, key, clock) ELSE Nil
       IN  IF l1.val # Nil \/ val = Nil
           THEN cache' = [cache EXCEPT !.local = l1.lru]
           ELSE cache' = [cache EXCEPT
                    !.local = lruSet(l1.lru, key, val, clock + l1TTL),
                    !.hist = Put(cacheHist, key,
                                 [requested |-> remote[key].ttl, placed |-> l1TTL])]
    /\ UNCHANGED <<procVars, bandVars, engineVars, eaVars, eaHist, apiVars, mgmtVars,
                   lockVars, workerVars, busVars>>

\* A minute passes.
Tick ==
    /\ clock < MaxClock
    /\ cache' = [cache EXCEPT !.clock = clock + 1]
    /\ UNCHANGED <<procVars, bandVars, engineVars, eaVars, eaHist, apiVars, mgmtVars,
                   lockVars, workerVars, busVars>>

\* A two-phase cache NewTwoPhaseCache has just built.
InitCache ==
    /\ processor = [AlertThreshold |-> DefaultAlertThreshold,
                    UseWeightedScoring |-> TRUE, Mode |-> ModeDetection]
    /\ decisionInput = [RuleResults |-> <<>>, TypologyResults |-> <<>>]
    /\ evaluation = NoEvaluation
    /\ EngineAtRest
    /\ ApiAtRest
    /\ MgmtAtRest
    /\ LockAtRest
    /\ WorkerAtRest
    /\ BusAtRest
    /\ \E localTTL \in LocalTTLs, n \in LocalMaxSizes :
           cache = NewTwoPhaseCache(NewTwoPhaseCacheTTL(localTTL), NewLRUCacheSize(n))

NextCache ==
    \/ \E key \in CacheKeys, ttl \in RequestedTTLs, remoteOk \in BOOLEAN :
           CacheSet(key, "v", ttl, remoteOk)
    \/ \E key \in CacheKeys, remoteOk \in BOOLEAN : CacheGet(key, remoteOk)
    \/ Tick

SpecCache == InitCache /\ [][NextCache]_vars

\* The most Set and Delete calls followed where Delete and Get interleave.
MaxCacheOps == 3

\* A Set call, counted.
CacheSetCall(key, value, ttl) ==
    /\ ops < MaxCacheOps
    /\ cache' = [cacheSet(cache, key, value, ttl, TRUE) EXCEPT
                     !.ops = ops + 1,
                     !.lastSet = Put(lastSet, key, ops + 1)]
    /\ UNCHANGED <<procVars, bandVars, engineVars, eaVars, eaHist, apiVars, mgmtVars,
                   lockVars, workerVars, busVars>>

\* A key without an entry.
mapWithout(map, key) ==
    [k \in DOMAIN map \ {key} |-> map[k]]

\* TwoPhaseCache.Delete: the key leaves L1, then L2.
CacheDelete(key) ==
    /\ ops < MaxCacheOps
    /\ cache' = [cache EXCEPT
           !.local = [local EXCEPT !.order = lruWithout(local.order, key)],
           !.remote = mapWithout(remote, key),
           !.ops = ops + 1,
           !.lastDelete = Put(lastDelete, key, ops + 1)]
    /\ UNCHANGED <<procVars, bandVars, engineVars, eaVars, eaHist, apiVars, mgmtVars,
                   lockVars, workerVars, busVars>>

\* TwoPhaseCache.Get up to its L2 read: a value L1 holds is returned.
CacheGetLocal(key) ==
    /\ getPc = "idle"
    /\ LET l1 == lruGet(local, key, clock)
       IN  IF l1.val # Nil
           THEN cache' = [cache EXCEPT
                    !.local = l1.lru,
                    !.getRet = [key |-> key, val |-> l1.val, start |-> ops]]
           ELSE cache' = [cache EXCEPT
                    !.local = l1.lru,
                    !.getPc = "remote",
                    !.getKey = key,
                    !.getStart = ops]
    /\ UNCHANGED <<procVars, bandVars, engineVars, eaVars, eaHist, apiVars, mgmtVars,
                   lockVars, workerVars, busVars>>

\* Get reads L2: without a value there it returns nil.
CacheGetRemote ==
    /\ getPc = "remote"
    /\ LET val == redisGet(remote, getKey, clock)
       IN  IF val = Nil
           THEN cache' = [cache EXCEPT
                    !.getPc = "idle",
                    !.getRet = [key |-> getKey, val |-> Nil, start |-> getStart]]
           ELSE cache' = [cache EXCEPT !.getPc = "populate", !.getVal = val]
    /\ UNCHANGED <<procVars, bandVars, engineVars, eaVars, eaHist, apiVars, mgmtVars,
                   lockVars, workerVars, busVars>>

\* Get writes the value it found in L2 to L1 and returns it.
CacheGetPopulate ==
    /\ getPc = "populate"
    /\ cache' = [cache EXCEPT
           !.local = lruSet(local, getKey, getVal, clock + l1TTL),
           !.getPc = "idle",
           !.getVal = Nil,
           !.getRet = [key |-> getKey, val |-> getVal, start |-> getStart]]
    /\ UNCHANGED <<procVars, bandVars, engineVars, eaVars, eaHist, apiVars, mgmtVars,
                   lockVars, workerVars, busVars>>

\* Set, Delete and a Get that the other calls can come between.
NextDelete ==
    \/ \E key \in CacheKeys, ttl \in RequestedTTLs : CacheSetCall(key, "v", ttl)
    \/ \E key \in CacheKeys : CacheDelete(key)
    \/ \E key \in CacheKeys : CacheGetLocal(key)
    \/ CacheGetRemote
    \/ CacheGetPopulate

SpecDelete == InitCache /\ [][NextDelete]_vars

\* The LRU cache on its own, as the memory cache: the most uses followed,
\* its keys and the maxSize NewLRUCache is called with.
MaxUses == 4
LRUKeys == {"k1", "k2", "k3"}
LRUMaxSizes == {0, 1, 2}

\* LRUCache.Set
LRUSet(key, value, ttl) ==
    /\ uses < MaxUses
    /\ cache' = [cache EXCEPT
           !.local = lruSet(local, key, value, clock + ttl),
           !.uses = uses + 1,
           !.lastUse = Put(lastUse, key, uses + 1)]
    /\ UNCHANGED <<procVars, bandVars, engineVars, eaVars, eaHist, apiVars, mgmtVars,
                   lockVars, workerVars, busVars>>

\* LRUCache.Get
LRUGet(key) ==
    /\ uses < MaxUses
    /\ LET got == lruGet(local, key, clock)
       IN  IF got.val = Nil
           THEN cache' = [cache EXCEPT !.local = got.lru]
           ELSE cache' = [cache EXCEPT
                    !.local = got.lru,
                    !.uses = uses + 1,
                    !.lastUse = Put(lastUse, key, uses + 1)]
    /\ UNCHANGED <<procVars, bandVars, engineVars, eaVars, eaHist, apiVars, mgmtVars,
                   lockVars, workerVars, busVars>>

\* An LRU cache NewLRUCache has just built.
InitLRU ==
    /\ processor = [AlertThreshold |-> DefaultAlertThreshold,
                    UseWeightedScoring |-> TRUE, Mode |-> ModeDetection]
    /\ decisionInput = [RuleResults |-> <<>>, TypologyResults |-> <<>>]
    /\ evaluation = NoEvaluation
    /\ EngineAtRest
    /\ ApiAtRest
    /\ MgmtAtRest
    /\ LockAtRest
    /\ WorkerAtRest
    /\ BusAtRest
    /\ \E n \in LRUMaxSizes :
           cache = NewTwoPhaseCache(DefaultLocalTTL, NewLRUCacheSize(n))

NextLRU ==
    \/ \E key \in LRUKeys, ttl \in RequestedTTLs : LRUSet(key, "v", ttl)
    \/ \E key \in LRUKeys : LRUGet(key)
    \/ Tick

SpecLRU == InitLRU /\ [][NextLRU]_vars

-----------------------------------------------------------------------------
(* What the claims about Process speak of, stated without the processor's code *)

ProcessReturned == evaluation # NoEvaluation

HasFail(rs) == \E i \in 1..Len(rs) : rs[i].SubRuleRef = RuleOutcomeFail
AllPass(rs) == \A i \in 1..Len(rs) : rs[i].SubRuleRef = RuleOutcomePass
AnyTriggered(ts) == \E i \in 1..Len(ts) : ts[i].Triggered

EffectiveWeight(r, weighted) ==
    IF weighted /\ RGt(r.Weight, RZero) THEN r.Weight ELSE ROne

RECURSIVE SumScoreTimesWeight(_, _, _)
SumScoreTimesWeight(rs, weighted, i) ==
    IF i > Len(rs) THEN RZero
    ELSE RAdd(RMul(rs[i].Score, EffectiveWeight(rs[i], weighted)),
              SumScoreTimesWeight(rs, weighted, i + 1))

RECURSIVE SumWeight(_, _, _)
SumWeight(rs, weighted, i) ==
    IF i > Len(rs) THEN RZero
    ELSE RAdd(EffectiveWeight(rs[i], weighted), SumWeight(rs, weighted, i + 1))

\* sum(score * w) / sum(w), and 0 for no rule results
ExpectedAggregate(rs, weighted) ==
    IF Len(rs) = 0 THEN RZero
    ELSE RDiv(SumScoreTimesWeight(rs, weighted, 1), SumWeight(rs, weighted, 1))

InputAggregate ==
    ExpectedAggregate(decisionInput.RuleResults, processor.UseWeightedScoring)

MaxTypologyScore(ts) ==
    CHOOSE s \in {ts[i].Score : i \in 1..Len(ts)} :
        \A j \in 1..Len(ts) : RGe(s, ts[j].Score)

\* C4: whenever some rule result is .fail, Process returns ALRT, whatever the
\* mode, the aggregate, the threshold or the typology results.
C4_CriticalFailureAlerts ==
    (ProcessReturned /\ HasFail(decisionInput.RuleResults))
        => evaluation.Status = StatusAlert

\* C4's case: compliance mode, a .fail rule, an aggregate below the threshold
\* and typology results none of which is triggered.
C4_Witness ==
    /\ ProcessReturned
    /\ HasFail(decisionInput.RuleResults)
    /\ processor.Mode = ModeCompliance
    /\ Len(decisionInput.TypologyResults) > 0
    /\ ~AnyTriggered(decisionInput.TypologyResults)
    /\ RLt(InputAggregate, processor.AlertThreshold)
    /\ evaluation.Status = StatusAlert

\* C6: in detection mode Process returns ALRT iff some rule result is .fail or
\* the aggregate is at least the alert threshold, and reports the aggregate
\* as the score.
C6_DetectionVerdict ==
    (ProcessReturned /\ processor.Mode = ModeDetection)
        => /\ (evaluation.Status = StatusAlert)
                <=> (HasFail(decisionInput.RuleResults)
                        \/ RGe(InputAggregate, processor.AlertThreshold))
           /\ evaluation.Score = InputAggregate

\* C7: in detection mode the status and the score are those Process gives the
\* same rule results with no typology results at all.
C7_DetectionIgnoresTypologies ==
    (ProcessReturned /\ processor.Mode = ModeDetection)
        => LET alone == Process(processor,
                            [decisionInput EXCEPT !.TypologyResults = <<>>])
           IN  /\ evaluation.Status = alone.Status
               /\ evaluation.Score = alone.Score

\* C8: in compliance mode with typology results, Process returns ALRT iff a
\* typology result is triggered or a rule result is .fail, and reports the
\* maximum typology score.
C8_ComplianceVerdict ==
    (/\ ProcessReturned
     /\ processor.Mode = ModeCompliance
     /\ Len(decisionInput.TypologyResults) > 0)
        => /\ (evaluation.Status = StatusAlert)
                <=> (AnyTriggered(decisionInput.TypologyResults)
                        \/ HasFail(decisionInput.RuleResults))
           /\ evaluation.Score = MaxTypologyScore(decisionInput.TypologyResults)

C15_AggregateIsWeightedMean ==
    (ProcessReturned /\ Len(decisionInput.TypologyResults) = 0)
        => /\ evaluation.Score = InputAggregate
           /\ Len(decisionInput.RuleResults) = 0 => evaluation.Score = RZero

\* Weighted scoring of a rule of weight 5 and score 7/10 with a rule whose
\* weight is not above 0 and whose score is 3/10: (7/2 + 3/10) / 6 = 19/30.
C15_Witness ==
    /\ ProcessReturned
    /\ processor.UseWeightedScoring
    /\ Len(decisionInput.TypologyResults) = 0
    /\ Len(decisionInput.RuleResults) = 2
    /\ decisionInput.RuleResults[1].Weight = <<5, 1>>
    /\ decisionInput.RuleResults[1].Score = <<7, 10>>
    /\ RLe(decisionInput.RuleResults[2].Weight, RZero)
    /\ decisionInput.RuleResults[2].Score = <<3, 10>>
    /\ evaluation.Score = <<19, 30>>

-----------------------------------------------------------------------------
(* Claims about the engine's live rule set *)

\* The returned results are exactly one result per rule of the given
\* configs, each produced by the compiled form of that config.
ResultsFrom(configs) ==
    /\ Len(eaResults) = Cardinality(DOMAIN configs)
    /\ \A id \in DOMAIN configs :
           \E i \in DOMAIN eaResults :
               /\ eaResults[i].RuleID = id
               /\ eaResults[i].Config = configs[id]

\* C1: an EvaluateAll call during which exactly one ReloadRules replaced the
\* live set returns results that all come from the set that was live before
\* the reload, or all from the set that is live after it, never from a mix.
C1_SingleLiveSet ==
    (eaPc = "returned" /\ eaMut = "reload")
        => (ResultsFrom(eaPre) \/ ResultsFrom(eaPost))

\* A call has returned two results from the old set although a reload
\* replaced that set with a different one while the call was in flight.
C1_Witness ==
    /\ eaPc = "returned"
    /\ eaMut = "reload"
    /\ eaPre # eaPost
    /\ Len(eaResults) = 2
    /\ ResultsFrom(eaPre)

\* C2: a step in which ReloadRules returns a compile error leaves the live
\* rule set as it was before the call.
C2_FailedReloadKeepsLiveSet ==
    [][(engineRet'.op = "ReloadRules" /\ engineRet'.err # Nil)
          => compiledRules' = compiledRules]_vars

\* ReloadRules has returned a compile error and rules are still live.
C2_Witness ==
    /\ engineRet.op = "ReloadRules"
    /\ engineRet.err # Nil
    /\ DOMAIN compiledRules # {}

\* C10: no result EvaluateAll holds was produced by a config whose enabled
\* flag is false, whichever load operation the config went through.
C10_DisabledNeverEvaluated ==
    \A i \in DOMAIN eaResults :
        eaResults[i] # NoResult => eaResults[i].Config.Enabled

\* C22: ValidateRule, and a LoadRule that returns a compile error, leave the
\* live rule set as it was before the call.
C22_ValidateAndFailedLoadKeepLiveSet ==
    [][(\/ engineRet'.op = "ValidateRule"
        \/ (engineRet'.op = "LoadRule" /\ engineRet'.err # Nil))
          => compiledRules' = compiledRules]_vars

\* LoadRule has returned a compile error for a config whose id is that of a
\* live rule, and that rule is still live.
C22_Witness ==
    /\ engineRet.op = "LoadRule"
    /\ engineRet.err = Broken.ID
    /\ Broken.ID \in DOMAIN compiledRules
    /\ compiledRules[Broken.ID].Config = SameAccount

EnabledIds(configs) ==
    {configs[i].ID : i \in {j \in DOMAIN configs : configs[j].Enabled}}

\* The enabled entry of the list under an id; the last one when the list
\* holds several.
EnabledEntry(configs, id) ==
    configs[CHOOSE i \in DOMAIN configs :
                /\ configs[i].ID = id /\ configs[i].Enabled
                /\ \A j \in DOMAIN configs :
                       (j > i /\ configs[j].ID = id) => ~configs[j].Enabled]

\* C17: a ReloadRules(X) that succeeds leaves as live set exactly the enabled
\* entries of X, by id, whatever the live set was: ids with no enabled entry
\* in X are gone; and ReloadRules(X) once more would change nothing.
C17_ReloadIsExactAndIdempotent ==
    [][\A X \in ConfigLists :
          (engineRet' = [op |-> "ReloadRules", err |-> Nil] /\ ReloadRules(X))
              => /\ DOMAIN compiledRules' = EnabledIds(X)
                 /\ \A id \in EnabledIds(X) :
                        compiledRules'[id].Config = EnabledEntry(X, id)
                 /\ EngineReloadRules(compiledRules', X).err = Nil
                 /\ EngineReloadRules(compiledRules', X).rules = compiledRules']_vars

\* During an EvaluateAll call that started with r1 and r2 live, one
\* successful reload left r1 alone, in another version.
C17_Witness ==
    /\ eaMut = "reload"
    /\ engineRet = [op |-> "ReloadRules", err |-> Nil]
    /\ DOMAIN eaPre = {"r1", "r2"}
    /\ eaPre["r1"] = HighValueV1
    /\ DOMAIN eaPost = {"r1"}
    /\ eaPost["r1"] = HighValueV2
    /\ LiveConfigs(compiledRules) = eaPost

-----------------------------------------------------------------------------
(* Claims about the handlers *)

\* C3: a step in which POST /rules answers 201 leaves the engine's live rule
\* set as it was: the created rule is not loaded before a reload.
C3_CreateRuleLeavesLiveSet ==
    [][(response'.handler = "CreateRule" /\ response'.status = 201)
          => compiledRules' = compiledRules]_vars

\* C5: in compliance mode with no typology loaded, a response written by
\* POST /evaluate is a 503 (or the 400 of an invalid body), one written by
\* GET /ready is 503 with ready=false, and one written by GET /health is 200
\* with status degraded.
C5_ComplianceNeedsTypologies ==
    [][(/\ processor.Mode = ModeCompliance
        /\ TypologyCount = 0
        /\ response' # response)
          => /\ response'.handler = "Evaluate" => response'.status \in {400, 503}
             /\ response'.handler = "Ready"
                    => response'.status = 503 /\ response'.body = [ready |-> "false"]
             /\ response'.handler = "Health"
                    => response'.status = 200 /\ response'.body = [status |-> "degraded"]
       ]_vars

-----------------------------------------------------------------------------
(* Claims about the typology engine *)

ResultRuleIds == {decisionInput.RuleResults[i].RuleID : i \in DOMAIN decisionInput.RuleResults}

ScoreOfRule(id) ==
    LET i == CHOOSE k \in DOMAIN decisionInput.RuleResults :
                 decisionInput.RuleResults[k].RuleID = id
    IN  decisionInput.RuleResults[i].Score

\* The listed rules of a typology that have a rule result, in listing order.
PresentRules(rules) == SelectSeq(rules, LAMBDA r : r.RuleID \in ResultRuleIds)

RECURSIVE SumContributions(_)
SumContributions(present) ==
    IF present = <<>> THEN RZero
    ELSE RAdd(RMul(ScoreOfRule(Head(present).RuleID), Head(present).Weight),
              SumContributions(Tail(present)))

\* C11: a typology result whose typology lists no rule that has a rule result
\* has score 0 and is not triggered.
C11_NoRulesNoTrigger ==
    \A i \in DOMAIN decisionInput.TypologyResults :
        LET res == decisionInput.TypologyResults[i]
        IN  PresentRules(typologies[res.TypologyID].Rules) = <<>>
                => (res.Score = RZero /\ ~res.Triggered)

\* C12: every typology result has as score the sum of score x weight over the
\* listed rules that have a rule result, one contribution record for each of
\* those and none for the others, and is triggered iff score >= threshold;
\* there is one result per loaded typology.
C12_TypologyScore ==
    /\ \A i \in DOMAIN decisionInput.TypologyResults :
           LET res == decisionInput.TypologyResults[i]
               typ == typologies[res.TypologyID]
               present == PresentRules(typ.Rules)
           IN  /\ res.Score = SumContributions(present)
               /\ Len(res.Contributions) = Len(present)
               /\ \A k \in DOMAIN present :
                      /\ res.Contributions[k].RuleID = present[k].RuleID
                      /\ res.Contributions[k].RuleScore = ScoreOfRule(present[k].RuleID)
                      /\ res.Contributions[k].Weight = present[k].Weight
               /\ res.Triggered <=> RGe(res.Score, typ.AlertThreshold)
    /\ decisionInput.TypologyResults # <<>> =>
           {decisionInput.TypologyResults[i].TypologyID :
               i \in DOMAIN decisionInput.TypologyResults} = DOMAIN typologies

\* Typology t1 was evaluated with a result for r2 only: r1 is skipped and
\* gets no record, the score is r2's 1.0 x 0.4, below the threshold.
C12_Witness ==
    /\ ResultRuleIds = {"r2"}
    /\ \E i \in DOMAIN decisionInput.TypologyResults :
           LET res == decisionInput.TypologyResults[i]
           IN  /\ res.TypologyID = "t1"
               /\ Len(res.Contributions) = 1
               /\ res.Score = <<2, 5>>
               /\ ~res.Triggered

-----------------------------------------------------------------------------
(* Claims about band matching *)

\* The half-open interval of a band contains the score, an absent upper limit
\* meaning unbounded above; the lower limit to use when it is absent is given.
InBand(score, band, absentLower) ==
    /\ IF band.LowerLimit = NoLimit
       THEN absentLower = NoLimit \/ RGe(score, absentLower)
       ELSE RGe(score, band.LowerLimit)
    /\ band.UpperLimit = NoLimit \/ RLt(score, band.UpperLimit)

\* The outcome and reason of the first band containing the score, and .pass
\* with "no matching band" when there is none.
FirstBand(score, bands, absentLower) ==
    LET hits == {i \in DOMAIN bands : InBand(score, bands[i], absentLower)}
    IN  IF hits = {} THEN [SubRuleRef |-> RuleOutcomePass, Reason |-> "no matching band"]
        ELSE LET i == CHOOSE k \in hits : \A j \in hits : k <= j
             IN  [SubRuleRef |-> bands[i].SubRuleRef, Reason |-> bands[i].Reason]

MatchedPosition(k) ==
    IF \E i \in DOMAIN matchInput.Bands : matchInput.Bands[i].Reason = matchResult[k].Reason
    THEN CHOOSE i \in DOMAIN matchInput.Bands :
             matchInput.Bands[i].Reason = matchResult[k].Reason
    ELSE 0

BothMatched ==
    /\ Len(matchResult) = 2
    /\ MatchedPosition(1) > 0
    /\ MatchedPosition(2) > 0

LowerOf(band) == IF band.LowerLimit = NoLimit THEN RZero ELSE band.LowerLimit

\* The bands are declared in ascending order: every band starts at or after
\* the upper limit of every band declared before it.
AscendingBands(bands) ==
    \A i, j \in DOMAIN bands :
        i < j => /\ bands[i].UpperLimit # NoLimit
                 /\ RGe(LowerOf(bands[j]), bands[i].UpperLimit)

\* C14 as claimed: for any band list, of two scores that both match a band
\* the larger one does not match an earlier band than the smaller one.
C14_Monotone ==
    (BothMatched /\ RLe(matchInput.Scores[1], matchInput.Scores[2]))
        => MatchedPosition(1) <= MatchedPosition(2)

\* C14 amended: the same for band lists declared in ascending order.
C14_MonotoneAscending ==
    (/\ BothMatched
     /\ AscendingBands(matchInput.Bands)
     /\ RLe(matchInput.Scores[1], matchInput.Scores[2]))
        => MatchedPosition(1) <= MatchedPosition(2)

\* Three ascending bands, the smaller score matched the first and the larger
\* the third.
C14_Witness ==
    /\ BothMatched
    /\ Len(matchInput.Bands) = 3
    /\ AscendingBands(matchInput.Bands)
    /\ RLt(matchInput.Scores[1], matchInput.Scores[2])
    /\ MatchedPosition(1) = 1
    /\ MatchedPosition(2) = 3

-----------------------------------------------------------------------------
(* Claims about EvaluateAll's results and POST /evaluate *)

Outcomes ==
    {RuleOutcomePass, RuleOutcomeReview, RuleOutcomeFail, RuleOutcomeError}

\* C16: every RuleResult EvaluateAll returns has its sub_rule_ref among
\* .pass, .review, .fail and .err.
C16_ClosedOutcomeSet ==
    eaPc = "returned"
        => \A i \in DOMAIN eaResults : eaResults[i].SubRuleRef \in Outcomes

\* The expression of the rule raises a runtime error: a division by a
\* velocity count of 0.
RaisesRuntimeError(rule, velocity) ==
    /\ rule.Config.Expression = ExprVelocityRatio
    /\ velocity.err # Nil \/ velocity.count = 0

\* C19: when the expression of a rule raises a runtime error during
\* EvaluateAll, the result of that rule has the outcome .err, the result of
\* every other rule is what that rule gives for the input on its own, and
\* EvaluateAll returns a result for every rule, not an error.
C19_RuntimeErrorIsContained ==
    (eaPc = "returned" /\ eaRules # <<>>)
        => /\ Len(eaResults) = Len(eaRules)
           /\ \A i \in DOMAIN eaRules :
                  /\ eaResults[i] # NoResult
                  /\ eaResults[i].RuleID = eaRules[i].Config.ID
                  /\ IF RaisesRuntimeError(eaRules[i], eaVelocity)
                     THEN eaResults[i].SubRuleRef = RuleOutcomeError
                     ELSE eaResults[i] =
                              evaluateRule(eaRules[i],
                                           Activation(eaInput, eaVelocity), eaInput)

\* The velocity rule raised the error next to the same-account rule, which
\* gave .fail for a transfer to the same account.
C19_Witness ==
    /\ eaPc = "returned"
    /\ Len(eaRules) = 2
    /\ \E i, j \in DOMAIN eaRules :
           /\ eaRules[i].Config = VelocityRatio
           /\ RaisesRuntimeError(eaRules[i], eaVelocity)
           /\ eaResults[i].SubRuleRef = RuleOutcomeError
           /\ eaRules[j].Config = SameAccount
           /\ eaResults[j].SubRuleRef = RuleOutcomeFail
           /\ eaResults[j].Score = ROne

\* A request with a tenant id, a body that parses, a type, a debtor id, a
\* creditor id and an amount above 0.
ValidRequest(req) ==
    /\ req.Tenant # ""
    /\ req.Parses
    /\ req.Type # ""
    /\ req.DebtorID # ""
    /\ req.CreditorID # ""
    /\ RGt(req.Amount, RZero)

\* C18: no failure keeps POST /evaluate from its verdict: a valid request
\* goes on to the rules whether or not its transaction is saved, a velocity
\* getter that fails leaves the velocity count at 0, and the response is 200
\* with a status whether or not the evaluation is saved.
C18_FailuresDoNotStopEvaluate ==
    [][/\ \A req \in EvaluateRequests \cup RejectedRequests, saveOk \in BOOLEAN :
              (ValidRequest(req) /\ EvaluateBegin(req, saveOk))
                  => (hPc' = "rules" /\ eaPc' = "called")
       /\ \A velocity \in Velocities :
              (velocity.err # Nil /\ EvaluateAllSnapshot(velocity) /\ eaPc' = "eval")
                  => Activation(eaInput', eaVelocity').velocity_count = 0
       /\ \A saveOk \in BOOLEAN :
              EvaluateRespond(saveOk)
                  => /\ response'.handler = "Evaluate"
                     /\ response'.status = 200
                     /\ response'.body.Status \in {StatusAlert, StatusNoAlert}]_vars

\* The response is 200 with a status although neither the transaction nor
\* the evaluation was saved.
C18_Witness ==
    /\ hPc = "idle"
    /\ response.handler = "Evaluate"
    /\ response.status = 200
    /\ response.body.Status = StatusAlert
    /\ hSaved = NothingSaved

\* C20: a POST /evaluate request without a tenant id, with a body that does
\* not parse, with an empty type, debtor id or creditor id, or with an amount
\* of 0 or less is answered with 400 and writes neither a transaction nor an
\* evaluation.
C20_InvalidRequestRejected ==
    [][\A req \in EvaluateRequests \cup RejectedRequests, saveOk \in BOOLEAN :
           (~ValidRequest(req) /\ EvaluateBegin(req, saveOk))
               => /\ response'.handler = "Evaluate"
                  /\ response'.status = 400
                  /\ hPc' = "idle"
                  /\ hSaved' = NothingSaved
                  /\ eaPc' = "idle"]_vars

\* A request with a negative amount got its 400 and nothing was written.
C20_Witness ==
    /\ hPc = "idle"
    /\ response.handler = "Evaluate"
    /\ response.status = 400
    /\ response.body.error = "amount.value must be positive"
    /\ hSaved = NothingSaved

-----------------------------------------------------------------------------
(* Claims about EvaluateAll's goroutines *)

Running == {i \in DOMAIN eaWorkers : eaWorkers[i] = "running"}

\* C21: once the ctx of a running EvaluateAll is cancelled, no goroutine that
\* has not started evaluating its rule starts evaluating it.
C21_CancelledWorkersSkip ==
    [][(eaCancelled /\ eaPc = "eval" /\ eaPc' = "eval")
          => \A i \in DOMAIN eaWorkers :
                 eaWorkers[i] = "spawned" => eaWorkers'[i] # "running"]_vars

\* C28: EvaluateAll returns one result for each rule of the snapshot it took
\* of the live set, the result at position i being that of the i-th rule of
\* the snapshot, and the snapshot holding each live rule once.
C28_OneResultPerSnapshotRule ==
    (eaPc = "returned" /\ eaRules # <<>>)
        => /\ Len(eaResults) = Len(eaRules)
           /\ \A i \in DOMAIN eaRules :
                  /\ eaResults[i] # NoResult
                  /\ eaResults[i].RuleID = eaRules[i].Config.ID
                  /\ eaResults[i].Config = eaRules[i].Config
           /\ {eaRules[i].Config.ID : i \in DOMAIN eaRules} = DOMAIN eaPre
           /\ Len(eaRules) = Cardinality(DOMAIN eaPre)
           /\ \A i \in DOMAIN eaRules : eaRules[i].Config = eaPre[eaRules[i].Config.ID]

\* Three rules went through an engine of one worker and the call returned
\* the three results, each in the slot of its rule.
C28_Witness ==
    /\ eaPc = "returned"
    /\ maxWorkers = 1
    /\ Len(eaRules) = 3
    /\ Len(eaResults) = 3
    /\ \A i \in 1..3 : eaResults[i].RuleID = eaRules[i].Config.ID
    /\ \E i \in 1..3 : eaRules[i].Config = HighValueV1 /\ eaResults[i].Score = ROne
    /\ \E i \in 1..3 : eaRules[i].Config = SameAccount /\ eaResults[i].SubRuleRef = RuleOutcomeFail

\* C29: during an EvaluateAll of an engine with maxWorkers W, no more than W
\* goroutines are evaluating their rule at the same time.
C29_AtMostMaxWorkersRunning ==
    Cardinality(Running) <= maxWorkers

\* Two workers are evaluating and the third rule's goroutine waits for sem.
C29_Witness ==
    /\ eaPc = "eval"
    /\ maxWorkers = 2
    /\ Len(eaWorkers) = 3
    /\ Cardinality(Running) = 2
    /\ \E i \in DOMAIN eaWorkers : eaWorkers[i] = "spawned"

-----------------------------------------------------------------------------
(* Claims about the typology management handlers *)

\* What the claim asks of a typology the management surface accepts.
ValidTypologyRequest(req) ==
    /\ Len(req.Rules) > 0
    /\ \A i \in DOMAIN req.Rules :
           /\ req.Rules[i].RuleID \in DOMAIN compiledRules
           /\ RGe(req.Rules[i].Weight, RZero)
           /\ RLe(req.Rules[i].Weight, ROne)
    /\ RGt(req.AlertThreshold, RZero)
    /\ RLe(req.AlertThreshold, ROne)

\* C23: a DELETE /typologies/{id} answered 200 leaves the typology engine
\* with exactly the typologies the repository lists, the deleted id not among
\* them; POST /typologies and PUT /typologies/{id} leave the typology engine's
\* typologies as they were.
C23_OnlyDeleteReloads ==
    [][/\ \A typologyID \in TypologyIds, deleteOk \in BOOLEAN, listOk \in BOOLEAN :
              (DeleteTypology(typologyID, deleteOk, listOk) /\ response'.status = 200)
                  => /\ typologies' = LoadTypologies(ListTypologies(repoTypologies'))
                     /\ typologyID \notin DOMAIN typologies'
       /\ \A req \in TypologyRequests, saveOk \in BOOLEAN :
              (\/ CreateTypology(req, saveOk)
               \/ \E typologyID \in TypologyIds : UpdateTypology(typologyID, req, saveOk))
                  => typologies' = typologies]_vars

\* C24: a POST /typologies or PUT /typologies/{id} whose typology has no
\* rules, a rule id the rule engine does not hold, a weight outside [0,1] or
\* an alert threshold outside (0,1] is answered 400 and writes no row.
C24_InvalidTypologyRejected ==
    [][\A req \in TypologyRequests, saveOk \in BOOLEAN :
           (/\ ~ValidTypologyRequest(req)
            /\ \/ CreateTypology(req, saveOk)
               \/ \E typologyID \in TypologyIds : UpdateTypology(typologyID, req, saveOk))
               => /\ response'.status = 400
                  /\ repoTypologies' = repoTypologies]_vars

-----------------------------------------------------------------------------
(* Claims about the typology engine's lock *)

\* C30: while EvaluateTypologies computes the results of the typologies it
\* holds no read lock, so that a LoadTypologies from another goroutine can
\* take the write lock.
C30_EvaluationDoesNotBlockReload ==
    (tyPc = "loop" /\ tyIter # <<>>) => tyReaders = 0

-----------------------------------------------------------------------------
(* Claims about the channel bus *)

\* C26: a pass of Publish's loop over a subscription whose channel is full
\* changes no channel and the loop goes on with the next subscription; a pass
\* over a subscription whose channel has room appends the message to that
\* channel; Publish returns only when it has gone through every subscription,
\* and it returns nil.
C26_PublishDropsForFullSubscriberOnly ==
    [][/\ (pubPc = "send" /\ pubLog' # pubLog)
              => LET i == Head(pubSubs)
                 IN  /\ pubSubs' = Tail(pubSubs)
                     /\ IF Len(subscriptions[i].msgCh) >= bufferSize
                        THEN subscriptions' = subscriptions
                        ELSE subscriptions' =
                                 [subscriptions EXCEPT ![i].msgCh = Append(@, pubMsg)]
       /\ (pubPc = "send" /\ pubPc' = "idle")
              => /\ pubSubs = <<>>
                 /\ pubRet' = Nil]_vars

\* A Publish has returned nil after it dropped the message for one
\* subscription and sent it to a later one.
C26_Witness ==
    /\ pubPc = "idle"
    /\ pubRet = Nil
    /\ \E j \in DOMAIN pubLog, k \in DOMAIN pubLog :
           /\ j < k
           /\ ~pubLog[j].sent
           /\ pubLog[k].sent
           /\ pubMsg \in {subscriptions[pubLog[k].sub].msgCh[n] :
                             n \in DOMAIN subscriptions[pubLog[k].sub].msgCh}

-----------------------------------------------------------------------------
(* Claims about the two-phase cache *)

\* C27: every entry of L1 was written with a TTL that is no longer than the
\* TTL asked for when its value was set and no longer than the configured
\* L1 TTL.
C27_L1TTLClamped ==
    \A i \in DOMAIN local.order :
        LET h == cacheHist[local.order[i].key]
        IN  h.placed <= h.requested /\ h.placed <= l1TTL

-----------------------------------------------------------------------------
(* Claims about the asynchronous path *)

\* C25: once a transaction has gone through POST /evaluate and through the
\* worker with the same mode and the same live rules and typologies, either
\* both have a verdict, with the same status and the same score, or neither
\* has; neither has one in compliance mode with no typology loaded.
C25_AsyncMatchesSync ==
    (response.handler = "Evaluate" /\ wPc \in {"done", "failed"})
        => /\ (response.status = 200) <=> (wPc = "done")
           /\ response.status = 200
                  => /\ response.body.Status = wEvaluation.Status
                     /\ response.body.Score = wEvaluation.Score
           /\ (processor.Mode = ModeCompliance /\ TypologyCount = 0)
                  => (response.status # 200 /\ wPc # "done")

-----------------------------------------------------------------------------
(* Claims about the bus's tenants and the end of subscriptions *)

\* The messages subscription i has received: those waiting in its channel
\* and those its handler was invoked with.
received(i) ==
    {subscriptions[i].msgCh[n] : n \in DOMAIN subscriptions[i].msgCh}
        \cup {subscriptions[i].handled[n] : n \in DOMAIN subscriptions[i].handled}

\* C32: every message a subscription has received was published for the
\* tenant and on the topic the subscription was made with.
C32_DeliveredToSameTenantAndTopicOnly ==
    \A i \in DOMAIN subscriptions :
        \A id \in received(i) :
            /\ messages[id].TenantID = subscriptions[i].tenantID
            /\ messages[id].Topic = subscriptions[i].topic

\* C33: the handler of a subscription whose Unsubscribe has returned has
\* been invoked with no message published after that return.
C33_NoHandlerCallAfterUnsubscribe ==
    \A i \in DOMAIN subscriptions :
        subscriptions[i].unsubscribed
            => \A n \in DOMAIN subscriptions[i].handled :
                   subscriptions[i].handled[n] <= subscriptions[i].unsubAt

\* C37: no Publish has sent on a channel that Close had closed.
C37_PublishNeverSendsOnClosedChannel ==
    pubPc # "panic"

\* C40: the map of the bus holds no subscription whose Unsubscribe has
\* returned, so Publish reads none and the map does not grow with the
\* subscribe/unsubscribe cycles gone by.
C40_UnsubscribedIsNotRetained ==
    \A i \in DOMAIN subscriptions :
        subscriptions[i].unsubscribed => ~subscriptions[i].inMap

-----------------------------------------------------------------------------
(* Claims about what the worker publishes *)

\* The messages published for the tenant on the topic.
publishedOn(tenantID, topic) ==
    {id \in DOMAIN messages :
        messages[id].TenantID = tenantID /\ messages[id].Topic = topic}

\* C31: when processTransaction has returned for a message it evaluated, the
\* bus has got exactly one message on the decision topic of the evaluation's
\* tenant, one message on that tenant's alert topic if the status is ALRT
\* and none if it is not, and no other message; the subscribers of the two
\* topics have received exactly these. Before that, and for a payload it
\* could not parse, the worker has published nothing.
C31_DecisionOnceAlertIffAlert ==
    IF wPc = "done"
    THEN /\ Cardinality(publishedOn(wTenantID, TopicDecision)) = 1
         /\ Cardinality(publishedOn(wTenantID, TopicAlert))
                = IF wEvaluation.Status = StatusAlert THEN 1 ELSE 0
         /\ Len(messages) = Cardinality(publishedOn(wTenantID, TopicDecision))
                              + Cardinality(publishedOn(wTenantID, TopicAlert))
         /\ \A i \in DOMAIN subscriptions :
                received(i) = publishedOn(subscriptions[i].tenantID, subscriptions[i].topic)
    ELSE messages = <<>>

\* The worker has returned for an evaluation with status ALRT, and for one
\* with another status; this is the first.
C31_Witness ==
    /\ wPc = "done"
    /\ wEvaluation.Status = StatusAlert
    /\ publishedOn(wTenantID, TopicAlert) # {}
    /\ publishedOn(wTenantID, TopicDecision) # {}

\* C38: the worker has saved and published the evaluation of a message of
\* its subscription under the subscription's tenant only.
C38_PayloadTenantCannotRedirect ==
    /\ \A n \in DOMAIN wSaved : wSaved[n].TenantID = wSubscription
    /\ \A id \in DOMAIN messages : messages[id].TenantID = wSubscription

-----------------------------------------------------------------------------
(* Claims about the LRU cache *)

\* The keys the LRU cache holds.
lruKeys(lru) ==
    {lru.order[i].key : i \in DOMAIN lru.order}

\* C34: the LRU cache never holds more than maxSize entries, and a step that
\* brings in a new key and loses an old one loses exactly one: the key whose
\* last use, a Set or a Get that returned its value, lies furthest back.
C34_CapacityAndLeastRecentlyUsedEvicted ==
    /\ [](Len(local.order) <= local.maxSize)
    /\ [][LET before == lruKeys(local)
              new == lruKeys(local') \ before
              evicted == before \ lruKeys(local')
          IN  (new # {} /\ evicted # {})
                  => \E v \in evicted :
                         /\ evicted = {v}
                         /\ \A k \in before : lastUse[v] <= lastUse[k]]_vars

\* A cache of two entries holds k1 and k3: k2 was evicted although k1 had
\* been set before it, because a Get of k1 came in between.
C34_Witness ==
    /\ local.maxSize = 2
    /\ lruKeys(local) = {"k1", "k3"}
    /\ DOMAIN lastUse = {"k1", "k2", "k3"}
    /\ lastUse["k1"] = 3
    /\ lastUse["k2"] = 2
    /\ lastUse["k3"] = 4

-----------------------------------------------------------------------------
(* Claims about Delete in the two-phase cache *)

\* C39: a Get that began after a Delete of its key had completed, with no
\* Set of the key completed since that Delete, has returned nil.
C39_NoDeletedValueAfterDelete ==
    (/\ getPc = "idle"
     /\ getRet # NoReturn
     /\ getRet.key \in DOMAIN lastDelete
     /\ lastDelete[getRet.key] <= getRet.start
     /\ (getRet.key \in DOMAIN lastSet => lastSet[getRet.key] < lastDelete[getRet.key]))
        => getRet.val = Nil

-----------------------------------------------------------------------------
(* Claims about the variables of rule expressions *)

\* C35: the activation the rules of a call are evaluated with holds the
\* input's amount, currency, debtor, creditor and type and the velocity
\* provider's count, whatever the input's AdditionalData.
C35_MetadataCannotReplaceVariables ==
    eaPc \in {"eval", "returned"}
        => LET activation == Activation(eaInput, eaVelocity)
           IN  /\ activation.amount = eaInput.Amount
               /\ activation.currency = eaInput.Currency
               /\ activation.debtor_id = eaInput.DebtorID
               /\ activation.creditor_id = eaInput.CreditorID
               /\ activation.tx_type = eaInput.Type
               /\ activation.velocity_count = velocityCount(eaVelocity)

-----------------------------------------------------------------------------
(* Claims about typology reloads during an evaluation *)

\* C36: an evaluation whose TypologyCount call found a typology loaded gets
\* typology results from its EvaluateTypologies call, so that Process
\* decides it by its typologies and not by the aggregate of its rules.
C36_CountAndEvaluationSeeSameTypologies ==
    [][(hPc = "typologies" /\ hPc' = "decide") => hTypologyResults' # <<>>]_vars

=============================================================================
